---------------------------- MODULE Spec2Model ----------------------------
(***************************************************************************)
(* A model of kube-federated-auth (multi-k8s-auth):                        *)
(*   - the OIDC VerifierManager and its verifier cache (package oidc),     *)
(*   - the TokenReview handler (package handler),                          *)
(*   - the authorized_clients whitelist matcher (package config),          *)
(*   - the credential Store (package credentials),                         *)
(*   - the credential Renewer (package credentials),                       *)
(*   - the reverse proxy and its identity headers (package proxy),         *)
(*   - the per-cluster renewal goroutines, the JWKS URL rewrite, the       *)
(*     /validate handler and concurrent Store.Set calls.                   *)
(* Each part has its own specification (SpecVM, SpecWL, SpecReq,           *)
(* SpecStore, SpecRenew, SpecRenewLive, SpecProxy, SpecLoops, SpecJWKS,    *)
(* SpecRepeat, SpecPairSet, SpecValidate).  A specification leaves the     *)
(* variables of the parts it does not use unchanged: at their initial      *)
(* values, or at NotInUse for the parts kept in one record variable.       *)
(***************************************************************************)
EXTENDS Integers, Sequences, FiniteSets, TLC

VARIABLES
    \* ---- VerifierManager (package oidc) ----
    verifiers,      \* m.verifiers: cluster -> verifier instance (0: no entry)
    vmWriter,       \* holder of m.mu's write lock, or NoThread
    vmReaders,      \* holders of m.mu's read lock
    vpc,            \* position of each Verify call
    vcluster,       \* clusterName argument of each Verify call
    vlocal,         \* the verifier returned by getOrCreateVerifier to the call
    vpath,          \* how the call got its verifier: fast / recheck / built
    vresult,        \* result of the Verify call
    vused,          \* the verifier instance verifier.Verify ran on
    vcalls,         \* Verify calls made so far by each goroutine
    nextId,         \* verifier instances constructed so far
    built,          \* per cluster: instances installed since its last invalidation
    removed,        \* instances removed from the cache by InvalidateVerifier
    removedAtStart, \* per call: the instances already removed when it started
    invCount,       \* InvalidateVerifier calls made so far
    \* ---- authorized_clients matcher (package config) ----
    wlEntries,      \* Config.AuthorizedClients
    wlTriple,       \* the arguments (cluster, namespace, serviceAccount)
    wlResult,       \* "none" before the call, then IsAuthorizedClient's result
    \* ---- TokenReviewHandler (package handler) ----
    hVerifierNil,   \* h.verifier == nil
    hConfigNil,     \* h.config == nil
    hStoreNil,      \* h.credStore == nil
    hAuthorized,    \* h.config.AuthorizedClients
    rqAuth,         \* the request's Authorization header: [scheme, token]
    rqBody,         \* the request body: [decodable, token]
    hpc,            \* position of ServeHTTP
    hremaining,     \* clusters the running loop over h.config.Clusters has left
    callerCluster,  \* authenticateCaller: callerCluster
    callerClaims,   \* authenticateCaller: callerClaims, [set, namespace, serviceAccount]
    detected,       \* ServeHTTP: cluster returned by detectCluster
    hresult,        \* ServeHTTP: result returned by forwardTokenReview
    fwdConfig,      \* the rest.Config the TokenReview was forwarded with
    resp,           \* the response written
    callerTried,    \* outcome of Verify(c, caller token) per cluster, this request
    detTried,       \* outcome of Verify(c, spec.token) per cluster, this request
    detResult,      \* "none", "found" or "nomatch": how detectCluster returned
    hlog,           \* the steps of ServeHTTP taken for this request, in order
    reqCount,       \* requests served so far
    \* ---- credential Store (package credentials) ----
    credentials,    \* s.credentials: cluster -> [present, token, ca]
    stClientNil,    \* s.client == nil
    stWriter,       \* s.mu: the goroutine holding the write lock
    stReaders,      \* s.mu: the goroutines holding the read lock
    stpc,           \* per goroutine: position in Get / Set / LoadFromFiles
    stcall,         \* per goroutine: the call [op, cluster, value]
    stret,          \* per goroutine: what its last Get returned
    sterr,          \* per goroutine: the error its last Set / LoadFromFiles returned
    stsnap,         \* per goroutine: saveToSecret's local data map
    ststamp,        \* per goroutine: number of its own write to the entry
    secret,         \* the Kubernetes Secret: [exists, data]
    writes,         \* per cluster: how many times the entry was written
    installed,      \* per cluster: the values ever stored in the entry
    setDone,        \* per cluster: the Set that returned and is still the last write
    need,           \* per goroutine's Get: setDone of its cluster when it was called
    readStamp,      \* per goroutine's Get: writes of its cluster when it read
    stOps,          \* number of Store calls made
    lbHad,          \* per goroutine's LoadBootstrapFromFiles: entry present when called
    snapStamp,      \* per goroutine's Set: writes of its cluster at saveToSecret's copy
    \* ---- Renewer (package credentials), the renewLoop of one remote cluster ----
    rnCfg,          \* the cluster's config: [TokenPath, CACert]
    rnVerifierNil,  \* r.verifier == nil
    rnFiles,        \* the bootstrap files: [readable, token, ca]
    rnpc,           \* position of renewLoop / renew / requestNewToken
    rnCreds,        \* renew: the credentials the next token request uses
    rnNew,          \* requestNewToken: newCreds
    rnAttempt,      \* requestNewToken calls made in this tick
    rnErr,          \* renew: err of the first requestNewToken, [wrap, cause]
    rnRetryErr,     \* renew: retryErr of the second requestNewToken
    rnRet,          \* what the last renew returned: "none", "nil" or an error
    rnLog,          \* the calls this tick made, in order
    rnStart,        \* s.credentials when this tick started
    rnLeft,         \* renew: timeUntilExpiry in hours (-1: not computed)
    rnIssued,       \* tokens the remote API server has issued so far
    rnTicks,        \* renew calls made so far
    rnCtxDone,      \* the context given to Start is cancelled
    \* ---- kube-auth-proxy (package proxy) ----
    px,             \* a record with the fields below
    \* ---- Renewer.Start with several remote clusters ----
    iso,            \* a record with the fields below
    \* ---- the JWKS URL of a verifier ----
    jw,             \* a record with the fields below
    \* ---- the same request served twice ----
    rp,             \* a record with the fields below
    \* ---- Set called by the renewers of two clusters ----
    cs,             \* a record with the fields below
    \* ---- the /validate endpoint ----
    vd              \* a record with the fields below

\* The value of a part's record in the specifications that do not use the
\* part.
NotInUse == "not in use"

vmVars == <<verifiers, vmWriter, vmReaders, vpc, vcluster, vlocal, vpath,
            vresult, vused, vcalls, nextId, built, removed, removedAtStart,
            invCount>>

wlVars == <<wlEntries, wlTriple, wlResult>>

rqVars == <<hVerifierNil, hConfigNil, hStoreNil, hAuthorized, rqAuth, rqBody, hpc,
            hremaining, callerCluster, callerClaims, detected, hresult, fwdConfig,
            resp, callerTried, detTried, detResult, hlog, reqCount>>

stVars == <<credentials, stClientNil, stWriter, stReaders, stpc, stcall, stret, sterr,
           stsnap, ststamp, secret, writes, installed, setDone, need, readStamp, stOps,
           lbHad, snapStamp>>

rnVars == <<rnCfg, rnVerifierNil, rnFiles, rnpc, rnCreds, rnNew, rnAttempt, rnErr,
            rnRetryErr, rnRet, rnLog, rnStart, rnLeft, rnIssued, rnTicks, rnCtxDone>>

pxVars == <<px>>

\* position of the request being served
pxpc == px.pc

\* handler serving it: "auth" or "proxy"
pxKind == px.kind

\* the headers of the request as the client sent it
pxIn == px.inHeader

\* r.Header
pxReq == px.req

\* token returned by extractBearerToken
pxToken == px.token

\* what Review returned
pxResult == px.result

\* status code written to the client (0: none yet)
pxCode == px.code

\* w.Header()
pxRespHeader == px.respHeader

\* the request the upstream received, if any
pxUpstream == px.upstream

isoVars == <<iso>>

\* s.credentials, by cluster
isoStore == iso.store

\* whether the VerifierManager caches a verifier, by cluster
isoCache == iso.cache

\* position of the renewLoop goroutine started for each cluster
isoPc == iso.pc

\* its parameter cluster
isoArg == iso.arg

\* renew: its variable creds
isoLocal == iso.local

\* requestNewToken: its variable newCreds
isoNew == iso.new

\* requestNewToken calls of its current tick
isoAttempt == iso.attempt

\* renew calls it has made
isoTicks == iso.ticks

\* the goroutine that took the last step
isoActor == iso.actor

jwVars == <<jw>>

\* "discovered": discovery document decoded; "keyset": key set created
jwpc == jw.pc

\* cfg.APIServer
jwAPIServer == jw.apiServer

\* discovery.JWKSURL
jwDiscovered == jw.discovered

\* jwksURL as given to oidc.NewRemoteKeySet
jwURL == jw.url

rpVars == <<rp>>

\* the request has been served once and has arrived again
rpAsked == rp.asked

\* callerCluster of the first serving
rpCallerCluster == rp.callerCluster

\* detected of the first serving
rpDetected == rp.detected

\* hresult of the first serving
rpResult == rp.result

\* resp of the first serving
rpResp == rp.resp

\* callerTried of the first serving
rpCallerTried == rp.callerTried

\* detTried of the first serving
rpDetTried == rp.detTried

csVars == <<cs>>

\* s.credentials
csCache == cs.cache

\* the Secret
csSecret == cs.secret

\* per renewer: where its Set call is
csPc == cs.pc

\* per renewer: data built by saveToSecret
csSnap == cs.snap

\* per renewer: number of map writes when data was built
csSnapAt == cs.snapAt

\* number of writes to s.credentials so far
csWrites == cs.writes

\* snapAt of the data the Secret holds
csSecretAt == cs.secretAt

\* highest snapAt written to the Secret so far
csNewest == cs.newest

\* per renewer: Set calls made
csCalls == cs.calls

\* a Set call has returned an error
csFailed == cs.failed

vdVars == <<vd>>

\* "received", "verify", "done"; "idle" before the first request
vdpc == vd.pc

\* the request body
vdReq == vd.req

\* how Verify ended
vdKind == vd.kind

\* err.Error() of Verify's error
vdErr == vd.err

\* status written
vdCode == vd.code

\* ErrorResponse.Error written
vdError == vd.error

\* requests served so far
vdCount == vd.count

vars == <<vmVars, wlVars, rqVars, stVars, rnVars, pxVars, isoVars, jwVars, rpVars, csVars, vdVars>>

\* What a step of the VerifierManager alone leaves unchanged.
VMFrame == UNCHANGED <<wlVars, rqVars, stVars, rnVars, pxVars, isoVars, jwVars, rpVars, csVars, vdVars>>

\* What a use of the matcher alone leaves unchanged.
WLFrame == UNCHANGED <<vmVars, rqVars, stVars, rnVars, pxVars, isoVars, jwVars, rpVars, csVars, vdVars>>

-----------------------------------------------------------------------------
(* Configuration: config.Config.Clusters.  "a" is a local cluster (no      *)
(* api_server), "b" is a remote cluster with api_server, ca_cert and       *)
(* token_path.  "z" is a name that is not configured.                      *)

Clusters == {"a", "b"}

UnknownCluster == "z"

ClusterNames == Clusters \cup {UnknownCluster}

APIServer(c) == IF c = "b" THEN "https://b:6443" ELSE ""

CACert(c) == IF c = "b" THEN "/etc/b/ca.crt" ELSE ""

TokenPath(c) == IF c = "b" THEN "/etc/b/token" ELSE ""

IsRemote(c) == APIServer(c) # ""

-----------------------------------------------------------------------------
(* Bounds of the VerifierManager model.                                    *)

MaxCalls == 2

MaxInvalidations == 1

VMThreads == {"v1", "v2"}

NoThread == "none"

-----------------------------------------------------------------------------
(* VerifierManager.Verify and getOrCreateVerifier, one action per step     *)
(* between two lock operations or outbound calls.                          *)

\* m.mu.RLock(): a reader enters when no writer holds the lock.
CanRLock == vmWriter = NoThread

\* m.mu.Lock(): a writer enters when nobody holds the lock.
CanLock == vmWriter = NoThread /\ vmReaders = {}

\* Verify: the cluster lookup in m.config.Clusters.
VerifyCall(t, c) ==
    /\ VMFrame
    /\ vpc[t] \in {"idle", "done"}
    /\ vcalls[t] < MaxCalls
    /\ vcalls' = [vcalls EXCEPT ![t] = @ + 1]
    /\ vcluster' = [vcluster EXCEPT ![t] = c]
    /\ vlocal' = [vlocal EXCEPT ![t] = 0]
    /\ vused' = [vused EXCEPT ![t] = 0]
    /\ vpath' = [vpath EXCEPT ![t] = "none"]
    /\ removedAtStart' = [removedAtStart EXCEPT ![t] = removed]
    /\ IF c \in Clusters
         THEN /\ vpc' = [vpc EXCEPT ![t] = "rlock"]
              /\ vresult' = [vresult EXCEPT ![t] = "none"]
         ELSE /\ vpc' = [vpc EXCEPT ![t] = "done"]
              /\ vresult' = [vresult EXCEPT ![t] = "cluster not found"]
    /\ UNCHANGED <<verifiers, vmWriter, vmReaders, nextId, built, removed, invCount>>

\* getOrCreateVerifier: m.mu.RLock()
RLock(t) ==
    /\ VMFrame
    /\ vpc[t] = "rlock"
    /\ CanRLock
    /\ vmReaders' = vmReaders \cup {t}
    /\ vpc' = [vpc EXCEPT ![t] = "rcheck"]
    /\ UNCHANGED <<verifiers, vmWriter, vcluster, vlocal, vpath, vresult, vused,
                   vcalls, nextId, built, removed, removedAtStart, invCount>>

\* getOrCreateVerifier: the lookup under the read lock, then m.mu.RUnlock()
ReadCheck(t) ==
    /\ VMFrame
    /\ vpc[t] = "rcheck"
    /\ vmReaders' = vmReaders \ {t}
    /\ IF verifiers[vcluster[t]] # 0
         THEN /\ vlocal' = [vlocal EXCEPT ![t] = verifiers[vcluster[t]]]
              /\ vpath' = [vpath EXCEPT ![t] = "fast"]
              /\ vpc' = [vpc EXCEPT ![t] = "verify"]
         ELSE /\ vpc' = [vpc EXCEPT ![t] = "lock"]
              /\ UNCHANGED <<vlocal, vpath>>
    /\ UNCHANGED <<verifiers, vmWriter, vcluster, vresult, vused, vcalls, nextId,
                   built, removed, removedAtStart, invCount>>

\* getOrCreateVerifier: m.mu.Lock()
Lock(t) ==
    /\ VMFrame
    /\ vpc[t] = "lock"
    /\ CanLock
    /\ vmWriter' = t
    /\ vpc' = [vpc EXCEPT ![t] = "recheck"]
    /\ UNCHANGED <<verifiers, vmReaders, vcluster, vlocal, vpath, vresult, vused,
                   vcalls, nextId, built, removed, removedAtStart, invCount>>

\* A plausible slip: no second lookup once the write lock is held.
DoubleCheckSkipped(t) == FALSE

\* getOrCreateVerifier: "Double-check after acquiring write lock"
DoubleCheckHit(t) == verifiers[vcluster[t]] # 0

\* The second lookup: return the cached verifier (deferred Unlock) or go on
\* to construct one.
DoubleCheck(t) ==
    /\ VMFrame
    /\ vpc[t] = "recheck"
    /\ IF DoubleCheckHit(t)
         THEN /\ vlocal' = [vlocal EXCEPT ![t] = verifiers[vcluster[t]]]
              /\ vpath' = [vpath EXCEPT ![t] = "recheck"]
              /\ vmWriter' = NoThread
              /\ vpc' = [vpc EXCEPT ![t] = "verify"]
         ELSE /\ vpc' = [vpc EXCEPT ![t] = "client"]
              /\ UNCHANGED <<vlocal, vpath, vmWriter>>
    /\ UNCHANGED <<verifiers, vmReaders, vcluster, vresult, vused, vcalls, nextId,
                   built, removed, removedAtStart, invCount>>

\* createHTTPClient: fails only when a ca_cert is configured and cannot be
\* read or parsed.  On failure getOrCreateVerifier returns (deferred Unlock).
CreateHTTPClient(t, ok) ==
    /\ VMFrame
    /\ vpc[t] = "client"
    /\ (~ok) => CACert(vcluster[t]) # ""
    /\ IF ok
         THEN /\ vpc' = [vpc EXCEPT ![t] = "discovery"]
              /\ UNCHANGED <<vmWriter, vresult>>
         ELSE /\ vpc' = [vpc EXCEPT ![t] = "done"]
              /\ vmWriter' = NoThread
              /\ vresult' = [vresult EXCEPT ![t] = "creating verifier"]
    /\ UNCHANGED <<verifiers, vmReaders, vcluster, vlocal, vpath, vused, vcalls,
                   nextId, built, removed, removedAtStart, invCount>>

\* A plausible slip: the map entry is written before discovery has
\* succeeded, so a failed construction leaves a verifier without key set.
HalfBuiltInstalled(t) == [verifiers EXCEPT ![vcluster[t]] = nextId + 1]

\* getOrCreateVerifier: the error return after fetchDiscovery comes before
\* m.verifiers[name] = verifier; the map is as it was.
MapAfterFailure(t) == verifiers

\* fetchDiscovery: the GET of /.well-known/openid-configuration; it fails when
\* the request fails, the status is not 200 or the document does not decode.
FetchDiscovery(t, ok) ==
    /\ VMFrame
    /\ vpc[t] = "discovery"
    /\ IF ok
         THEN /\ vpc' = [vpc EXCEPT ![t] = "install"]
              /\ UNCHANGED <<verifiers, vmWriter, vresult>>
         ELSE /\ vpc' = [vpc EXCEPT ![t] = "done"]
              /\ verifiers' = MapAfterFailure(t)
              /\ vmWriter' = NoThread
              /\ vresult' = [vresult EXCEPT ![t] = "creating verifier"]
    /\ UNCHANGED <<vmReaders, vcluster, vlocal, vpath, vused, vcalls,
                   nextId, built, removed, removedAtStart, invCount>>

\* getOrCreateVerifier: oidc.NewVerifier, m.verifiers[name] = verifier, return
\* (deferred Unlock).
Install(t) ==
    /\ VMFrame
    /\ vpc[t] = "install"
    /\ nextId' = nextId + 1
    /\ verifiers' = [verifiers EXCEPT ![vcluster[t]] = nextId + 1]
    /\ built' = [built EXCEPT ![vcluster[t]] = @ + 1]
    /\ vlocal' = [vlocal EXCEPT ![t] = nextId + 1]
    /\ vpath' = [vpath EXCEPT ![t] = "built"]
    /\ vmWriter' = NoThread
    /\ vpc' = [vpc EXCEPT ![t] = "verify"]
    /\ UNCHANGED <<vmReaders, vcluster, vresult, vused, vcalls, removed,
                   removedAtStart, invCount>>

\* A plausible slip: verification looks the verifier up in the map again
\* instead of using the instance getOrCreateVerifier returned.
VerifierReadAgain(t) == verifiers[vcluster[t]]

\* Verify: the instance verifier.Verify(ctx, rawToken) runs on.
VerifierUsed(t) == vlocal[t]

\* Verify: verifier.Verify and token.Claims; ok says whether they succeed.
VerifyToken(t, ok) ==
    /\ VMFrame
    /\ vpc[t] = "verify"
    /\ vused' = [vused EXCEPT ![t] = VerifierUsed(t)]
    /\ vresult' = [vresult EXCEPT ![t] = IF ok THEN "ok" ELSE "verifying token"]
    /\ vpc' = [vpc EXCEPT ![t] = "done"]
    /\ UNCHANGED <<verifiers, vmWriter, vmReaders, vcluster, vlocal, vpath, vcalls,
                   nextId, built, removed, removedAtStart, invCount>>

\* VerifierManager.InvalidateVerifier(clusterName): under the write lock,
\* remove the cached verifier of the cluster.
InvalidateVerifier(c) ==
    /\ VMFrame
    /\ invCount < MaxInvalidations
    /\ CanLock
    /\ invCount' = invCount + 1
    /\ verifiers' = [verifiers EXCEPT ![c] = 0]
    /\ removed' = IF verifiers[c] # 0 THEN removed \cup {verifiers[c]} ELSE removed
    /\ built' = [built EXCEPT ![c] = 0]
    /\ UNCHANGED <<vmWriter, vmReaders, vpc, vcluster, vlocal, vpath, vresult,
                   vused, vcalls, nextId, removedAtStart>>


-----------------------------------------------------------------------------
(* Strings are sequences of symbols.  A symbol is "/" (the separator), "*" *)
(* or any other letter; a name such as a cluster name is a string.         *)

Slash == "/"

Wildcard == <<"*">>

\* The index of the first "/" of s, or 0 when s has none.
FirstSlash(s) ==
    IF \E i \in 1..Len(s) : s[i] = Slash
      THEN CHOOSE i \in 1..Len(s) : s[i] = Slash /\ \A j \in 1..(i-1) : s[j] # Slash
      ELSE 0

\* strings.SplitN(s, "/", n) for n > 0: at most n substrings, the last one
\* being the unsplit remainder.
RECURSIVE SplitN(_, _)
SplitN(s, n) ==
    IF n = 1 \/ FirstSlash(s) = 0
      THEN <<s>>
      ELSE <<SubSeq(s, 1, FirstSlash(s) - 1)>>
             \o SplitN(SubSeq(s, FirstSlash(s) + 1, Len(s)), n - 1)

\* A plausible slip: the wildcard is not honoured.
matchSegmentLiteral(pattern, value) == pattern = value

\* config.matchSegment
matchSegment(pattern, value) == pattern = Wildcard \/ pattern = value

\* The number of parts an entry is split into: strings.SplitN(entry, "/", 3).
PatternParts == 3

\* Config.IsAuthorizedClient: the loop over c.AuthorizedClients from entry i.
RECURSIVE IsAuthorizedFrom(_, _, _, _, _)
IsAuthorizedFrom(entries, i, cluster, namespace, serviceAccount) ==
    IF i > Len(entries)
      THEN FALSE
      ELSE LET parts == SplitN(entries[i], PatternParts) IN
           IF Len(parts) # PatternParts
             THEN IsAuthorizedFrom(entries, i + 1, cluster, namespace, serviceAccount)
             ELSE IF /\ matchSegment(parts[1], cluster)
                     /\ matchSegment(parts[2], namespace)
                     /\ matchSegment(parts[3], serviceAccount)
                    THEN TRUE
                    ELSE IsAuthorizedFrom(entries, i + 1, cluster, namespace, serviceAccount)

\* Config.IsAuthorizedClient
IsAuthorizedClient(entries, cluster, namespace, serviceAccount) ==
    IsAuthorizedFrom(entries, 1, cluster, namespace, serviceAccount)

-----------------------------------------------------------------------------
(* The matcher as a pure function: SpecWL draws a whitelist and a triple   *)
(* and applies IsAuthorizedClient once.                                    *)

MaxEntryLen == 6

WLAlphabet == {"a", "*", Slash}

\* Every string of at most MaxEntryLen symbols: well-formed patterns,
\* entries with fewer than three segments and entries with more slashes.
WLEntries == UNION {[1..n -> WLAlphabet] : n \in 0..MaxEntryLen}

\* A second entry put before or after the drawn one: one with two segments
\* and a well-formed one.
WLFillers == {<<"a", Slash, "a">>, <<"b", Slash, "*", Slash, "b">>}

WLWhitelists ==
    {<<>>} \cup {<<e>> : e \in WLEntries}
           \cup {<<f, e>> : f \in WLFillers, e \in WLEntries}
           \cup {<<e, f>> : f \in WLFillers, e \in WLEntries}

\* Names of clusters, namespaces and service accounts: no name holds "/".
WLNames == {<<>>, <<"a">>, <<"b">>}

WLDraw ==
    /\ wlEntries \in WLWhitelists
    /\ wlTriple \in WLNames \X WLNames \X WLNames
    /\ wlResult = "none"

WLCheck ==
    /\ WLFrame
    /\ wlResult = "none"
    /\ wlResult' = IF IsAuthorizedClient(wlEntries, wlTriple[1], wlTriple[2], wlTriple[3])
                     THEN "true" ELSE "false"
    /\ UNCHANGED <<wlEntries, wlTriple>>

-----------------------------------------------------------------------------
(* The TokenReview handler (package handler).  One request is served at a  *)
(* time; the verifier cache and the configuration persist across requests. *)

MaxRequests == 2

\* The raw tokens requests carry, with the clusters whose keys verify each
\* and the identity in its kubernetes.io claim.
Tokens == {"tA", "tB", "tAB", "tNoId", "tBad"}

TokenValidFor(tok) ==
    CASE tok = "tA" -> {"a"}
      [] tok = "tB" -> {"b"}
      [] tok = "tAB" -> {"a", "b"}
      [] tok = "tNoId" -> {"a"}
      [] OTHER -> {}

TokenNamespace(tok) == IF tok \in {"tA", "tB", "tAB"} THEN "ns1" ELSE ""

TokenServiceAccount(tok) ==
    CASE tok = "tA" -> "app"
      [] tok = "tB" -> "other"
      [] tok = "tAB" -> "app"
      [] OTHER -> ""

\* A name as a string of symbols.
Str(n) == IF n = "" THEN <<>> ELSE <<n>>

\* Values of h.config.AuthorizedClients.
HandlerWhitelists ==
    { <<>>,
      << <<"a", Slash, "ns1", Slash, "app">> >>,
      << <<"*", Slash, "*", Slash, "*">> >>,
      << <<"b", Slash, "ns1">>, <<"b", Slash, "*", Slash, "other">> >> }

\* Authorization headers: absent, another scheme, "Bearer " with nothing
\* after it, "Bearer <token>".
AuthHeaders ==
    { [scheme |-> "", token |-> ""],
      [scheme |-> "Basic", token |-> "dXNlcjpwYXNz"],
      [scheme |-> "Bearer", token |-> ""] }
    \cup { [scheme |-> "Bearer", token |-> t] : t \in Tokens }

\* Request bodies: not JSON, a TokenReview without spec.token, a TokenReview
\* with a token.
Bodies ==
    { [decodable |-> FALSE, token |-> ""], [decodable |-> TRUE, token |-> ""] }
    \cup { [decodable |-> TRUE, token |-> t] : t \in Tokens }

ExtraKeyClusterName == "authentication.kubernetes.io/cluster-name"

OtherExtraKey == "authentication.kubernetes.io/pod-name"

APIVersionV1 == "authentication.k8s.io/v1"

KindTokenReview == "TokenReview"

StatusOK == 200

StatusBadRequest == 400

StatusUnauthorized == 401

StatusForbidden == 403

StatusInternalServerError == 500

\* status.user.extra: a nil map, or a map from keys to lists of strings.
NilExtra == [isNil |-> TRUE, m |-> <<>>]

\* What a remote cluster may return in status.user.extra.
RemoteExtras ==
    { NilExtra,
      [isNil |-> FALSE, m |-> (OtherExtraKey :> <<"pod-1">>)],
      [isNil |-> FALSE, m |-> (ExtraKeyClusterName :> <<"evil">>)],
      [isNil |-> FALSE, m |-> (ExtraKeyClusterName :> <<>>)],
      [isNil |-> FALSE,
       m |-> (ExtraKeyClusterName :> <<"a", "b">>) @@ (OtherExtraKey :> <<"pod-1">>)] }

\* The TokenReview the typed client returns: TypeMeta is not populated.
RemoteResults ==
    { [apiVersion |-> "", kind |-> "", authenticated |-> a, error |-> e, extra |-> x] :
        a \in BOOLEAN, e \in {""}, x \in RemoteExtras }
    \cup { [apiVersion |-> "", kind |-> "", authenticated |-> FALSE,
            error |-> "token expired", extra |-> NilExtra] }

NoResult == [apiVersion |-> "", kind |-> "", authenticated |-> FALSE, error |-> "",
             extra |-> NilExtra]

NoResp == [code |-> 0, apiVersion |-> "", kind |-> "", authenticated |-> FALSE,
           error |-> "", extra |-> NilExtra, via |-> "none"]

NoClaims == [set |-> FALSE, namespace |-> "", serviceAccount |-> ""]

NoRestConfig == [host |-> "", bearer |-> "", ca |-> "", inCluster |-> FALSE]

NoCreds == [present |-> FALSE, token |-> "", ca |-> ""]

NoCluster == ""

Issuer(c) == IF c = "a" THEN "https://kubernetes.default.svc" ELSE "https://issuer.b"

\* Variables of the VerifierManager a sequential Verify call does not touch.
vmRest == <<vmWriter, vmReaders, vpc, vcluster, vlocal, vpath, vresult, vused,
            vcalls, removed, removedAtStart, invCount>>

\* What a step of the handler leaves unchanged outside the handler and the
\* verifier cache.
RQFrame == UNCHANGED <<wlVars, stVars, vmRest, rnVars, pxVars, isoVars, jwVars, rpVars, csVars, vdVars>>

\* VerifierManager.Verify(c, tok) run to completion: the outcomes it can have
\* given the cache.  Construction can fail only when no verifier is cached;
\* verification can always fail (bad signature, expiry, JWKS fetch) and
\* succeeds only for a token the cluster's keys verify.
VerifyOutcomes(c, tok) ==
    (IF verifiers[c] = 0 THEN {"creating verifier"} ELSE {})
      \cup {"verifying token"}
      \cup (IF c \in TokenValidFor(tok) THEN {"ok"} ELSE {})

\* The effect of that call on the cache: a verifier is installed unless
\* construction failed or one is cached already.
VerifyEffect(c, o) ==
    IF o # "creating verifier" /\ verifiers[c] = 0
      THEN /\ verifiers' = [verifiers EXCEPT ![c] = nextId + 1]
           /\ nextId' = nextId + 1
           /\ built' = [built EXCEPT ![c] = @ + 1]
      ELSE UNCHANGED <<verifiers, nextId, built>>

VMUntouched == UNCHANGED <<verifiers, nextId, built>>

\* A plausible slip: authentication is switched on by the mere presence of a
\* configuration.
AuthEnabledByConfig == ~hConfigNil

\* ServeHTTP: h.config != nil && len(h.config.AuthorizedClients) > 0
AuthEnabled == ~hConfigNil /\ Len(hAuthorized) > 0

\* writeError
writeError(code, msg) ==
    [code |-> code, apiVersion |-> APIVersionV1, kind |-> KindTokenReview,
     authenticated |-> FALSE, error |-> msg, extra |-> NilExtra, via |-> "writeError"]

\* writeUnauthenticated: no WriteHeader call, so the status is 200.
writeUnauthenticated(msg) ==
    [code |-> StatusOK, apiVersion |-> APIVersionV1, kind |-> KindTokenReview,
     authenticated |-> FALSE, error |-> msg, extra |-> NilExtra,
     via |-> "writeUnauthenticated"]

\* ServeHTTP: json.NewEncoder(w).Encode(result), status 200.
EncodeResult(r) ==
    [code |-> StatusOK, apiVersion |-> r.apiVersion, kind |-> r.kind,
     authenticated |-> r.authenticated, error |-> r.error, extra |-> r.extra,
     via |-> "forwarded"]

\* The handler writes r and returns.
Finish(r) ==
    /\ resp' = r
    /\ hpc' = "done"
    /\ hlog' = Append(hlog, "Respond")

\* ServeHTTP: entry, and the decision whether to authenticate the caller.
ServeStart ==
    /\ RQFrame /\ VMUntouched
    /\ hpc = "start"
    /\ IF AuthEnabled
         THEN hpc' = "auth" /\ hlog' = Append(hlog, "CallerAuth")
         ELSE hpc' = "parse" /\ hlog' = hlog
    /\ UNCHANGED <<hVerifierNil, hConfigNil, hStoreNil, hAuthorized, rqAuth, rqBody,
                   hremaining, callerCluster, callerClaims, detected, hresult,
                   fwdConfig, resp, callerTried, detTried, detResult, reqCount>>

\* authenticateCaller: the checks of the Authorization header and of
\* h.verifier, before the loop over the clusters.
AuthHeaderCheck ==
    /\ RQFrame /\ VMUntouched
    /\ hpc = "auth"
    /\ IF rqAuth.scheme = ""
         THEN Finish(writeError(StatusUnauthorized, "Authorization header required"))
                /\ UNCHANGED hremaining
         ELSE IF rqAuth.scheme # "Bearer"
         THEN Finish(writeError(StatusUnauthorized,
                                "Authorization header must use Bearer scheme"))
                /\ UNCHANGED hremaining
         ELSE IF rqAuth.token = ""
         THEN Finish(writeError(StatusUnauthorized, "bearer token is empty"))
                /\ UNCHANGED hremaining
         ELSE IF hVerifierNil
         THEN Finish(writeError(StatusInternalServerError,
                                "server not configured for authentication"))
                /\ UNCHANGED hremaining
         ELSE /\ hpc' = "caller_verify"
              /\ hremaining' = Clusters
              /\ UNCHANGED <<resp, hlog>>
    /\ UNCHANGED <<hVerifierNil, hConfigNil, hStoreNil, hAuthorized, rqAuth, rqBody,
                   callerCluster, callerClaims, detected, hresult, fwdConfig,
                   callerTried, detTried, detResult, reqCount>>

\* authenticateCaller: one iteration of "for clusterName := range
\* h.config.Clusters" (map order: any cluster not yet visited), and the
\* check after the loop when it was the last one.
CallerVerify(c, o) ==
    /\ RQFrame
    /\ hpc = "caller_verify"
    /\ c \in hremaining
    /\ o \in VerifyOutcomes(c, rqAuth.token)
    /\ VerifyEffect(c, o)
    /\ callerTried' = [callerTried EXCEPT ![c] = o]
    /\ IF o = "ok"
         THEN /\ callerCluster' = c
              /\ callerClaims' = [set |-> TRUE,
                                  namespace |-> TokenNamespace(rqAuth.token),
                                  serviceAccount |-> TokenServiceAccount(rqAuth.token)]
              /\ hpc' = "caller_authz"
              /\ hremaining' = {}
              /\ UNCHANGED <<resp, hlog>>
         ELSE IF hremaining \ {c} = {}
         THEN /\ Finish(writeError(StatusUnauthorized,
                                   "caller token not valid for any configured cluster"))
              /\ hremaining' = {}
              /\ UNCHANGED <<callerCluster, callerClaims>>
         ELSE /\ hremaining' = hremaining \ {c}
              /\ UNCHANGED <<callerCluster, callerClaims, hpc, resp, hlog>>
    /\ UNCHANGED <<hVerifierNil, hConfigNil, hStoreNil, hAuthorized, rqAuth, rqBody,
                   detected, hresult, fwdConfig, detTried, detResult, reqCount>>

\* extractIdentity: namespace and serviceaccount.name of the kubernetes.io
\* claim, "" when missing.
extractIdentity(claims) == <<claims.namespace, claims.serviceAccount>>

\* authenticateCaller: identity extraction and the whitelist check.
CallerAuthorize ==
    /\ RQFrame /\ VMUntouched
    /\ hpc = "caller_authz"
    /\ LET id == extractIdentity(callerClaims) IN
       IF id[1] = "" \/ id[2] = ""
         THEN Finish(writeError(StatusUnauthorized, "caller token missing identity claims"))
         ELSE IF ~IsAuthorizedClient(hAuthorized, Str(callerCluster), Str(id[1]), Str(id[2]))
         THEN Finish(writeError(StatusForbidden, "caller is not authorized"))
         ELSE /\ hpc' = "parse"
              /\ UNCHANGED <<resp, hlog>>
    /\ UNCHANGED <<hVerifierNil, hConfigNil, hStoreNil, hAuthorized, rqAuth, rqBody,
                   hremaining, callerCluster, callerClaims, detected, hresult,
                   fwdConfig, callerTried, detTried, detResult, reqCount>>

\* A plausible slip: the check of the empty token is left out.
TokenNeverMissing(body) == FALSE

\* if tr.Spec.Token == ""
TokenMissing(body) == body.token = ""

\* ServeHTTP: decoding of the body, the empty-token check and the
\* "server not configured" check.
ParseBody ==
    /\ RQFrame /\ VMUntouched
    /\ hpc = "parse"
    /\ IF ~rqBody.decodable
         THEN /\ resp' = writeError(StatusBadRequest, "invalid request body")
              /\ hpc' = "done"
              /\ hlog' = hlog \o <<"Parse", "Respond">>
              /\ UNCHANGED hremaining
         ELSE IF TokenMissing(rqBody)
         THEN /\ resp' = writeError(StatusBadRequest, "token is required")
              /\ hpc' = "done"
              /\ hlog' = hlog \o <<"Parse", "Respond">>
              /\ UNCHANGED hremaining
         ELSE IF hVerifierNil \/ hConfigNil
         THEN /\ resp' = writeUnauthenticated("server not configured")
              /\ hpc' = "done"
              /\ hlog' = hlog \o <<"Parse", "Respond">>
              /\ UNCHANGED hremaining
         ELSE /\ hpc' = "detect"
              /\ hremaining' = Clusters
              /\ hlog' = hlog \o <<"Parse", "Detect">>
              /\ UNCHANGED resp
    /\ UNCHANGED <<hVerifierNil, hConfigNil, hStoreNil, hAuthorized, rqAuth, rqBody,
                   callerCluster, callerClaims, detected, hresult, fwdConfig,
                   callerTried, detTried, detResult, reqCount>>

\* buildRESTConfig: for a cluster with api_server the Store's credentials (or
\* none); otherwise the in-cluster config, or the issuer as host.
buildRESTConfig(c, inCluster) ==
    IF APIServer(c) # ""
      THEN [host |-> APIServer(c),
            bearer |-> IF ~hStoreNil /\ credentials[c].present
                         THEN credentials[c].token ELSE "",
            ca |-> IF ~hStoreNil /\ credentials[c].present
                     THEN credentials[c].ca ELSE "",
            inCluster |-> FALSE]
      ELSE IF inCluster
      THEN [host |-> "in-cluster", bearer |-> "in-cluster", ca |-> "in-cluster",
            inCluster |-> TRUE]
      ELSE [host |-> Issuer(c), bearer |-> "", ca |-> "", inCluster |-> FALSE]

\* A plausible slip: the first failing Verify ends the iteration.
DetectAbort(c) == {}

\* detectCluster: after a failed Verify for c the loop goes on with the
\* clusters not yet visited.
DetectRest(c) == hremaining \ {c}

\* A plausible slip: detection asks the cluster itself, sending it the token.
DetectByForwarding(c) == buildRESTConfig(c, FALSE)

\* detectCluster sends nothing to any cluster: what has been forwarded is
\* what had been forwarded before.
DetectForwarded(c) == fwdConfig

\* detectCluster: one iteration of the loop over h.config.Clusters, with the
\* return after the loop when nothing is left, and ServeHTTP's handling of
\* the error.
DetectVerify(c, o) ==
    /\ RQFrame
    /\ hpc = "detect"
    /\ c \in hremaining
    /\ o \in VerifyOutcomes(c, rqBody.token)
    /\ VerifyEffect(c, o)
    /\ detTried' = [detTried EXCEPT ![c] = o]
    /\ fwdConfig' = DetectForwarded(c)
    /\ IF o = "ok"
         THEN /\ detected' = c
              /\ detResult' = "found"
              /\ hpc' = "forward"
              /\ hremaining' = {}
              /\ UNCHANGED <<resp, hlog>>
         ELSE IF DetectRest(c) = {}
         THEN /\ detResult' = "nomatch"
              /\ Finish(writeUnauthenticated("token not valid for any configured cluster"))
              /\ hremaining' = {}
              /\ UNCHANGED detected
         ELSE /\ hremaining' = DetectRest(c)
              /\ UNCHANGED <<detected, detResult, hpc, resp, hlog>>
    /\ UNCHANGED <<hVerifierNil, hConfigNil, hStoreNil, hAuthorized, rqAuth, rqBody,
                   callerCluster, callerClaims, hresult, callerTried, reqCount>>

\* A plausible slip: the result is returned as the client decoded it.
KeepTypeMeta(r) == r

\* forwardTokenReview: "Ensure TypeMeta is set"
SetTypeMeta(r) == [r EXCEPT !.apiVersion = APIVersionV1, !.kind = KindTokenReview]

\* What can come of forwarding: the client cannot be created, the call
\* fails, or the remote cluster answers with a TokenReview.
ForwardErrors == {"creating kubernetes client", "calling TokenReview API"}

\* forwardTokenReview and ServeHTTP's handling of its error.
ForwardTokenReview(inCluster, err, r) ==
    /\ RQFrame /\ VMUntouched
    /\ hpc = "forward"
    /\ fwdConfig' = buildRESTConfig(detected, inCluster)
    /\ IF err # ""
         THEN /\ resp' = writeUnauthenticated("failed to validate token: " \o err)
              /\ hpc' = "done"
              /\ hlog' = hlog \o <<"Forward", "Respond">>
              /\ UNCHANGED hresult
         ELSE /\ hresult' = SetTypeMeta(r)
              /\ hpc' = "annotate"
              /\ hlog' = Append(hlog, "Forward")
              /\ UNCHANGED resp
    /\ UNCHANGED <<hVerifierNil, hConfigNil, hStoreNil, hAuthorized, rqAuth, rqBody,
                   hremaining, callerCluster, callerClaims, detected, callerTried,
                   detTried, detResult, reqCount>>

\* A plausible slip: the cluster name is added only when the remote cluster
\* sent none.
AnnotateIfAbsent(r, cluster) ==
    IF r.authenticated /\ (r.extra.isNil \/ ExtraKeyClusterName \notin DOMAIN r.extra.m)
      THEN [r EXCEPT !.extra = [isNil |-> FALSE,
                                m |-> (ExtraKeyClusterName :> <<cluster>>) @@ r.extra.m]]
      ELSE r

\* ServeHTTP: "Add cluster name to extra field for client awareness"
Annotate(r, cluster) ==
    IF r.authenticated
      THEN [r EXCEPT !.extra = [isNil |-> FALSE,
                                m |-> (ExtraKeyClusterName :> <<cluster>>) @@ r.extra.m]]
      ELSE r

\* ServeHTTP: annotation and encoding of the forwarded result.
Respond ==
    /\ RQFrame /\ VMUntouched
    /\ hpc = "annotate"
    /\ Finish(EncodeResult(Annotate(hresult, detected)))
    /\ UNCHANGED <<hVerifierNil, hConfigNil, hStoreNil, hAuthorized, rqAuth, rqBody,
                   hremaining, callerCluster, callerClaims, detected, hresult,
                   fwdConfig, callerTried, detTried, detResult, reqCount>>

\* The next request arrives at the same handler.
NextRequest(auth, body) ==
    /\ RQFrame /\ VMUntouched
    /\ hpc = "done"
    /\ reqCount < MaxRequests
    /\ reqCount' = reqCount + 1
    /\ rqAuth' = auth
    /\ rqBody' = body
    /\ hpc' = "start"
    /\ hremaining' = {}
    /\ callerCluster' = NoCluster
    /\ callerClaims' = NoClaims
    /\ detected' = NoCluster
    /\ hresult' = NoResult
    /\ fwdConfig' = NoRestConfig
    /\ resp' = NoResp
    /\ callerTried' = [c \in Clusters |-> "none"]
    /\ detTried' = [c \in Clusters |-> "none"]
    /\ detResult' = "none"
    /\ hlog' = <<>>
    /\ UNCHANGED <<hVerifierNil, hConfigNil, hStoreNil, hAuthorized>>

-----------------------------------------------------------------------------
(* The credential Store (package credentials).  Goroutines (the renewers,  *)
(* the handler, startup) call Get, Set and LoadFromFiles concurrently.     *)

MaxStoreOps == 3

STThreads == {"s1", "s2"}

\* The clusters the Store is used for: main bootstraps the clusters that
\* have token_path and ca_cert, the Renewer renews the remote ones and
\* buildRESTConfig looks up the ones with api_server.
StoreClusters ==
    {c \in Clusters : IsRemote(c) \/ (TokenPath(c) # "" /\ CACert(c) # "")}

\* Credentials handed to Set, and the ones LoadFromFiles reads from files.
Creds(tok, ca) == [present |-> TRUE, token |-> tok, ca |-> ca]

SetValues == {Creds("tok1", "ca1"), Creds("tok2", "ca2")}

FileCreds == Creds("boot-token", "boot-ca")

\* The map entry while a writer is in the middle of the assignment: what a
\* reader not excluded by the lock could observe.
TornCreds == Creds("torn", "torn")

NoCall == [op |-> "none", cluster |-> NoCluster, value |-> NoCreds]

NoSetDone == [valid |-> FALSE, value |-> NoCreds, stamp |-> 0, failed |-> FALSE]

NoSecret == [exists |-> FALSE, data |-> <<>>]

\* fmt.Sprintf("%s-token", cluster), fmt.Sprintf("%s-ca.crt", cluster)
TokenSuffix == "-token"

CASuffix == "-ca.crt"

\* A plausible slip: the token is stored under the bare cluster name.
TokenKeyBare(c) == Str(c)

TokenKey(c) == Str(c) \o <<TokenSuffix>>

CAKey(c) == Str(c) \o <<CASuffix>>

\* strings.HasSuffix, strings.TrimSuffix
HasSuffix(k, suffix) == Len(k) >= 1 /\ k[Len(k)] = suffix

TrimSuffix(k, suffix) == IF HasSuffix(k, suffix) THEN SubSeq(k, 1, Len(k) - 1) ELSE k

\* saveToSecret: the data built from s.credentials under the read lock.
SnapshotData(m) ==
    LET P == {c \in Clusters : m[c].present} IN
    LET tokens == [k \in {TokenKey(c) : c \in P} |->
                      m[CHOOSE c \in P : TokenKey(c) = k].token]
        cas == [k \in {CAKey(c) : c \in P} |->
                   m[CHOOSE c \in P : CAKey(c) = k].ca]
    IN  cas @@ tokens

\* loadFromSecret: the cluster names the keys of the Secret yield.
SecretClusters(data) ==
    {TrimSuffix(k, TokenSuffix) : k \in {x \in DOMAIN data : HasSuffix(x, TokenSuffix)}}
      \cup {TrimSuffix(k, CASuffix) :
               k \in {x \in DOMAIN data : ~HasSuffix(x, TokenSuffix) /\ HasSuffix(x, CASuffix)}}

\* loadFromSecret: the credentials of every such cluster that has both keys.
LoadedFromSecret(data) ==
    [c \in Clusters |->
        IF /\ Str(c) \in SecretClusters(data)
           /\ TokenKey(c) \in DOMAIN data
           /\ CAKey(c) \in DOMAIN data
          THEN Creds(data[TokenKey(c)], data[CAKey(c)])
          ELSE NoCreds]

\* s.mu.RLock() can be taken; s.mu.Lock() can be taken.
StoreCanRLock == stWriter = NoThread

StoreCanLock == stWriter = NoThread /\ stReaders = {}

STFrame == UNCHANGED <<vmVars, wlVars, rqVars, rnVars, pxVars, isoVars, jwVars, rpVars, csVars, vdVars>>

\* Bookkeeping of LoadBootstrapFromFiles and saveToSecret.
stAux == <<lbHad, snapStamp>>

\* Store.Get is called.
GetCall(t, c) ==
    /\ STFrame
    /\ UNCHANGED stAux
    /\ stpc[t] = "idle"
    /\ stOps < MaxStoreOps
    /\ stOps' = stOps + 1
    /\ stcall' = [stcall EXCEPT ![t] = [op |-> "Get", cluster |-> c, value |-> NoCreds]]
    /\ stpc' = [stpc EXCEPT ![t] = "get_rlock"]
    /\ need' = [need EXCEPT ![t] = setDone[c]]
    /\ UNCHANGED <<credentials, stClientNil, stWriter, stReaders, stret, sterr, stsnap,
                   ststamp, secret, writes, installed, setDone, readStamp>>

\* Store.Get: s.mu.RLock()
GetRLock(t) ==
    /\ STFrame
    /\ UNCHANGED stAux
    /\ stpc[t] = "get_rlock"
    /\ StoreCanRLock
    /\ stReaders' = stReaders \cup {t}
    /\ stpc' = [stpc EXCEPT ![t] = "get_read"]
    /\ UNCHANGED <<credentials, stClientNil, stWriter, stcall, stret, sterr, stsnap,
                   ststamp, secret, writes, installed, setDone, need, readStamp, stOps>>

\* Store.Get: the map read, the deferred RUnlock and the return.
GetRead(t) ==
    /\ STFrame
    /\ UNCHANGED stAux
    /\ stpc[t] = "get_read"
    /\ stret' = [stret EXCEPT ![t] = credentials[stcall[t].cluster]]
    /\ readStamp' = [readStamp EXCEPT ![t] = writes[stcall[t].cluster]]
    /\ stReaders' = stReaders \ {t}
    /\ stpc' = [stpc EXCEPT ![t] = "idle"]
    /\ UNCHANGED <<credentials, stClientNil, stWriter, stcall, sterr, stsnap, ststamp,
                   secret, writes, installed, setDone, need, stOps>>

\* Store.Set is called.
SetCall(t, c, v) ==
    /\ STFrame
    /\ UNCHANGED stAux
    /\ stpc[t] = "idle"
    /\ stOps < MaxStoreOps
    /\ stOps' = stOps + 1
    /\ stcall' = [stcall EXCEPT ![t] = [op |-> "Set", cluster |-> c, value |-> v]]
    /\ sterr' = [sterr EXCEPT ![t] = ""]
    /\ stpc' = [stpc EXCEPT ![t] = "w_lock"]
    /\ UNCHANGED <<credentials, stClientNil, stWriter, stReaders, stret, stsnap, ststamp,
                   secret, writes, installed, setDone, need, readStamp>>

\* How the two os.ReadFile calls of LoadFromFiles can go: both succeed, the
\* token file cannot be read, the CA file cannot be read.
FileReads == {"ok", "token", "ca"}

ReadError(read) ==
    CASE read = "ok" -> ""
      [] read = "token" -> "reading token file"
      [] read = "ca" -> "reading CA file"

\* A plausible slip: the token is put into the map as soon as it is read,
\* before the CA file is read.
TokenInstalledFirst(m, c, read) ==
    IF read = "ca" THEN [m EXCEPT ![c] = Creds(FileCreds.token, "")] ELSE m

\* LoadFromFiles: the map while the files are being read.  Both files are
\* read before s.mu.Lock().
MapAfterReads(m, c, read) == m

\* Store.LoadFromFiles is called and reads the two files: when a read fails
\* it returns the error and the map is not touched.
LoadFromFilesCall(t, c, read) ==
    /\ STFrame
    /\ UNCHANGED stAux
    /\ stpc[t] = "idle"
    /\ stOps < MaxStoreOps
    /\ stOps' = stOps + 1
    /\ stcall' = [stcall EXCEPT ![t] = [op |-> "LoadFromFiles", cluster |-> c,
                                        value |-> FileCreds]]
    /\ credentials' = MapAfterReads(credentials, c, read)
    /\ sterr' = [sterr EXCEPT ![t] = ReadError(read)]
    /\ stpc' = IF read = "ok" THEN [stpc EXCEPT ![t] = "w_lock"] ELSE stpc
    /\ UNCHANGED <<stClientNil, stWriter, stReaders, stret, stsnap, ststamp,
                   secret, writes, installed, setDone, need, readStamp>>

\* Store.LoadBootstrapFromFiles is called: it starts with s.Get(cluster).
LoadBootstrapCall(t, c) ==
    /\ STFrame
    /\ stpc[t] = "idle"
    /\ stOps < MaxStoreOps
    /\ stOps' = stOps + 1
    /\ stcall' = [stcall EXCEPT ![t] = [op |-> "LoadBootstrapFromFiles", cluster |-> c,
                                        value |-> FileCreds]]
    /\ sterr' = [sterr EXCEPT ![t] = ""]
    /\ ststamp' = [ststamp EXCEPT ![t] = 0]
    /\ lbHad' = [lbHad EXCEPT ![t] = credentials[c].present]
    /\ stpc' = [stpc EXCEPT ![t] = "lb_rlock"]
    /\ UNCHANGED <<credentials, stClientNil, stWriter, stReaders, stret, stsnap, secret,
                   writes, installed, setDone, need, readStamp, snapStamp>>

\* LoadBootstrapFromFiles: s.Get takes the read lock.
LoadBootstrapRLock(t) ==
    /\ STFrame
    /\ UNCHANGED stAux
    /\ stpc[t] = "lb_rlock"
    /\ StoreCanRLock
    /\ stReaders' = stReaders \cup {t}
    /\ stpc' = [stpc EXCEPT ![t] = "lb_read"]
    /\ UNCHANGED <<credentials, stClientNil, stWriter, stcall, stret, sterr, stsnap,
                   ststamp, secret, writes, installed, setDone, need, readStamp, stOps>>

\* A plausible slip: the bootstrap files are loaded whatever the Store holds.
BootstrapNeverSkips(t) == FALSE

\* LoadBootstrapFromFiles: "if _, ok := s.Get(cluster); ok"
BootstrapSkips(t) == credentials[stcall[t].cluster].present

\* LoadBootstrapFromFiles: s.Get reads the entry and releases the lock; with
\* an entry the call returns nil, without one LoadFromFiles reads the files
\* (and returns the error when that fails).
LoadBootstrapRead(t, ok) ==
    /\ STFrame
    /\ UNCHANGED stAux
    /\ stpc[t] = "lb_read"
    /\ stret' = [stret EXCEPT ![t] = credentials[stcall[t].cluster]]
    /\ stReaders' = stReaders \ {t}
    /\ IF BootstrapSkips(t)
         THEN /\ stpc' = [stpc EXCEPT ![t] = "idle"]
              /\ UNCHANGED sterr
         ELSE IF ok
         THEN /\ stpc' = [stpc EXCEPT ![t] = "w_lock"]
              /\ UNCHANGED sterr
         ELSE /\ stpc' = [stpc EXCEPT ![t] = "idle"]
              /\ sterr' = [sterr EXCEPT ![t] = "reading token file"]
    /\ UNCHANGED <<credentials, stClientNil, stWriter, stcall, stsnap, ststamp, secret,
                   writes, installed, setDone, need, readStamp, stOps>>

\* Store.Set, Store.LoadFromFiles: s.mu.Lock()
StoreLock(t) ==
    /\ STFrame
    /\ UNCHANGED stAux
    /\ stpc[t] = "w_lock"
    /\ StoreCanLock
    /\ stWriter' = t
    /\ stpc' = [stpc EXCEPT ![t] = "w_begin"]
    /\ UNCHANGED <<credentials, stClientNil, stReaders, stcall, stret, sterr, stsnap,
                   ststamp, secret, writes, installed, setDone, need, readStamp, stOps>>

\* A plausible slip: the write installs a new map that holds this entry only.
MapReplace(m, c, v) == [d \in Clusters |-> IF d = c THEN v ELSE NoCreds]

\* s.credentials[cluster] = creds
MapAssign(m, c, v) == [m EXCEPT ![c] = v]

\* s.credentials[cluster] = creds, in progress under the write lock.
WriteBegin(t) ==
    /\ STFrame
    /\ UNCHANGED stAux
    /\ stpc[t] = "w_begin"
    /\ credentials' = [credentials EXCEPT ![stcall[t].cluster] = TornCreds]
    /\ stpc' = [stpc EXCEPT ![t] = "w_end"]
    /\ UNCHANGED <<stClientNil, stWriter, stReaders, stcall, stret, sterr, stsnap,
                   ststamp, secret, writes, installed, setDone, need, readStamp, stOps>>

\* A plausible slip: Set releases the lock with a deferred Unlock, so it is
\* still held while the Secret is written.
WriterHeldForSave(t) == IF stcall[t].op = "Set" THEN t ELSE NoThread

\* s.mu.Unlock() right after the assignment: nobody holds the write lock.
WriterAfterSwap(t) == NoThread

\* s.credentials[cluster] = creds completed, and s.mu.Unlock().
\* LoadFromFiles returns here; Set goes on to the persistence.
WriteEnd(t) ==
    /\ STFrame
    /\ UNCHANGED stAux
    /\ stpc[t] = "w_end"
    /\ LET c == stcall[t].cluster IN
       /\ credentials' = MapAssign(credentials, c, stcall[t].value)
       /\ writes' = [writes EXCEPT ![c] = @ + 1]
       /\ ststamp' = [ststamp EXCEPT ![t] = writes[c] + 1]
       /\ installed' = [installed EXCEPT ![c] = @ \cup {stcall[t].value}]
       /\ setDone' = [setDone EXCEPT ![c] = NoSetDone]
    /\ stWriter' = WriterAfterSwap(t)
    /\ stpc' = [stpc EXCEPT ![t] = IF stcall[t].op = "Set" THEN "set_after" ELSE "idle"]
    /\ UNCHANGED <<stClientNil, stReaders, stcall, stret, sterr, stsnap, secret, need,
                   readStamp, stOps>>

\* What the return of Set(c, v) by t establishes: unless c's entry was
\* written again since t wrote it, Set(c, v) has returned and v is the value.
SetReturned(t, err) ==
    LET c == stcall[t].cluster IN
    IF writes[c] = ststamp[t]
      THEN [setDone EXCEPT ![c] = [valid |-> TRUE, value |-> stcall[t].value,
                                   stamp |-> writes[c], failed |-> err # ""]]
      ELSE setDone

\* Store.Set: "if s.client != nil" is false, return nil.
SetSkipSave(t) ==
    /\ STFrame
    /\ UNCHANGED stAux
    /\ stpc[t] = "set_after"
    /\ stClientNil
    /\ setDone' = SetReturned(t, "")
    /\ stpc' = [stpc EXCEPT ![t] = "idle"]
    /\ UNCHANGED <<credentials, stClientNil, stWriter, stReaders, stcall, stret, sterr,
                   stsnap, ststamp, secret, writes, installed, need, readStamp, stOps>>

\* saveToSecret: RLock, copy of every entry into data, RUnlock.
SaveSnapshot(t) ==
    /\ STFrame
    /\ stpc[t] = "set_after"
    /\ ~stClientNil
    /\ StoreCanRLock
    /\ snapStamp' = [snapStamp EXCEPT ![t] = writes[stcall[t].cluster]]
    /\ UNCHANGED lbHad
    /\ stsnap' = [stsnap EXCEPT ![t] = SnapshotData(credentials)]
    /\ stpc' = [stpc EXCEPT ![t] = "save_update"]
    /\ UNCHANGED <<credentials, stClientNil, stWriter, stReaders, stcall, stret, sterr,
                   ststamp, secret, writes, installed, setDone, need, readStamp, stOps>>

\* A plausible slip: a failed persistence takes the entry out of the map
\* again.
RollbackOnError(t, err) ==
    IF err # "" THEN [credentials EXCEPT ![stcall[t].cluster] = NoCreds] ELSE credentials

\* Store.Set: whether or not saveToSecret failed, the map is left as it is.
CredentialsAfterSave(t, err) == credentials

\* The error of saveToSecret for each way the API calls can go.
SaveError(outcome) ==
    CASE outcome = "updated" -> ""
      [] outcome = "created" -> ""
      [] outcome = "create failed" -> "persisting credentials: creating secret"
      [] outcome = "update failed" -> "persisting credentials: updating secret"

\* saveToSecret: Update, Create when the Secret is not found; then Set
\* returns the error or nil.
SaveUpdate(t, outcome) ==
    /\ STFrame
    /\ UNCHANGED stAux
    /\ stpc[t] = "save_update"
    /\ outcome \in IF secret.exists
                     THEN {"updated", "update failed"}
                     ELSE {"created", "create failed", "update failed"}
    /\ secret' = IF outcome \in {"updated", "created"}
                   THEN [exists |-> TRUE, data |-> stsnap[t]]
                   ELSE secret
    /\ sterr' = [sterr EXCEPT ![t] = SaveError(outcome)]
    /\ credentials' = CredentialsAfterSave(t, SaveError(outcome))
    /\ setDone' = SetReturned(t, SaveError(outcome))
    /\ stpc' = [stpc EXCEPT ![t] = "idle"]
    /\ UNCHANGED <<stClientNil, stWriter, stReaders, stcall, stret, stsnap, ststamp,
                   writes, installed, need, readStamp, stOps>>

\* Credentials a Secret written by an earlier run may hold, for any cluster.
StaleCreds == Creds("old-token", "old-ca")

\* The Store's state apart from the map, before any call.
STRestIdle ==
    /\ stClientNil = TRUE
    /\ stWriter = NoThread
    /\ stReaders = {}
    /\ stpc = [t \in STThreads |-> "idle"]
    /\ stcall = [t \in STThreads |-> NoCall]
    /\ stret = [t \in STThreads |-> NoCreds]
    /\ sterr = [t \in STThreads |-> ""]
    /\ stsnap = [t \in STThreads |-> <<>>]
    /\ ststamp = [t \in STThreads |-> 0]
    /\ secret = NoSecret
    /\ writes = [c \in Clusters |-> 0]
    /\ installed = [c \in Clusters |-> {}]
    /\ setDone = [c \in Clusters |-> NoSetDone]
    /\ need = [t \in STThreads |-> NoSetDone]
    /\ readStamp = [t \in STThreads |-> 0]
    /\ stOps = 0
    /\ lbHad = [t \in STThreads |-> FALSE]
    /\ snapStamp = [t \in STThreads |-> 0]

\* NewStore: without a client the map is empty; with one, loadFromSecret
\* fills it from the Secret if there is one.
STDraw ==
    /\ stClientNil \in BOOLEAN
    /\ secret \in IF stClientNil
                    THEN {NoSecret}
                    ELSE {NoSecret,
                          [exists |-> TRUE,
                           data |-> SnapshotData([c \in Clusters |-> StaleCreds])]}
    /\ credentials = IF secret.exists
                       THEN LoadedFromSecret(secret.data)
                       ELSE [c \in Clusters |-> NoCreds]
    /\ installed = [c \in Clusters |->
                      IF credentials[c].present THEN {credentials[c]} ELSE {}]
    /\ stWriter = NoThread
    /\ stReaders = {}
    /\ stpc = [t \in STThreads |-> "idle"]
    /\ stcall = [t \in STThreads |-> NoCall]
    /\ stret = [t \in STThreads |-> NoCreds]
    /\ sterr = [t \in STThreads |-> ""]
    /\ stsnap = [t \in STThreads |-> <<>>]
    /\ ststamp = [t \in STThreads |-> 0]
    /\ writes = [c \in Clusters |-> 0]
    /\ setDone = [c \in Clusters |-> NoSetDone]
    /\ need = [t \in STThreads |-> NoSetDone]
    /\ readStamp = [t \in STThreads |-> 0]
    /\ stOps = 0
    /\ lbHad = [t \in STThreads |-> FALSE]
    /\ snapStamp = [t \in STThreads |-> 0]

-----------------------------------------------------------------------------
(* The credential Renewer (package credentials).  Start runs one renewLoop *)
(* goroutine per remote cluster; the model follows the loop of the remote  *)
(* cluster.  A tick is one call of renew; the Store calls of the tick are  *)
(* taken as single steps.                                                  *)

MaxTicks == 2

\* The cluster whose renewLoop is followed.
RenewCluster == CHOOSE c \in Clusters : IsRemote(c)

\* config.DefaultRenewalRenewBefore, in hours.
RenewBefore == 48

\* The values of timeUntilExpiry a tick may compute, in hours.
HoursLeft == {RenewBefore - 1, RenewBefore, RenewBefore + 1}

NotComputed == 0 - 1

\* Tokens that are not service account JWTs with an expiry: a JWT without
\* exp, a JWT whose sub is no service account, a string that is no JWT.
NoExpToken == "noexp-token"

NoSubToken == "nosub-token"

OpaqueToken == "opaque-token"

\* The tokens the remote API server issues, in the order it issues them.
IssuedNames == <<"issued-1", "issued-2", "issued-3", "issued-4", "issued-5",
                 "issued-6", "issued-7", "issued-8">>

IssuedToken(n) == IssuedNames[n]

\* getTokenExpiration returns no error.
ExpiryKnown(tok) == tok \notin {"", NoExpToken, OpaqueToken}

\* parseServiceAccountFromToken returns no error.
SubjectKnown(tok) == tok \notin {"", NoSubToken, OpaqueToken}

\* What the bootstrap files may hold; a file may be missing or empty.
NoFiles == [readable |-> FALSE, token |-> "", ca |-> ""]

Files(tok, ca) == [readable |-> TRUE, token |-> tok, ca |-> ca]

FileStates == {NoFiles, Files("boot-token", "boot-ca"), Files(NoSubToken, "boot-ca"),
               Files("", "boot-ca"), Files("boot-token", "")}

\* What a Secret written by an earlier run may hold for the cluster.
SecretStates == {StaleCreds, Creds(NoExpToken, "old-ca"), Creds(OpaqueToken, "old-ca")}

\* cfg.TokenPath != "" && cfg.CACert != ""
BootstrapConfigured == rnCfg.TokenPath # "" /\ rnCfg.CACert # ""

\* The values renew returns: nil, or an error fmt.Errorf wrapped around a
\* cause.
NotReturned == [returned |-> FALSE, wrap |-> "", cause |-> ""]

ReturnNil == [returned |-> TRUE, wrap |-> "", cause |-> ""]

ReturnError(wrap, cause) == [returned |-> TRUE, wrap |-> wrap, cause |-> cause]

\* The variables of the Store and of the VerifierManager that a tick does
\* not use.
stRest == <<stClientNil, stWriter, stReaders, stpc, stcall, stret, sterr, stsnap,
            ststamp, setDone, need, readStamp, stOps, lbHad, snapStamp>>

vmOther == <<vmWriter, vmReaders, vpc, vcluster, vlocal, vpath, vresult, vused,
             vcalls, nextId, removedAtStart, invCount>>

RNFrame == UNCHANGED <<wlVars, rqVars, stRest, vmOther, pxVars, isoVars, jwVars, rpVars, csVars, vdVars>>

StoreUntouched == UNCHANGED <<credentials, secret, writes, installed>>

CacheUntouched == UNCHANGED <<verifiers, removed, built>>

\* A plausible slip: the files are loaded through Store.Set, which writes the
\* Secret as well when there is a client.
LoadFromFilesThroughSet(c) ==
    /\ credentials' = MapAssign(credentials, c, Creds(rnFiles.token, rnFiles.ca))
    /\ writes' = [writes EXCEPT ![c] = @ + 1]
    /\ installed' = [installed EXCEPT ![c] = @ \cup {Creds(rnFiles.token, rnFiles.ca)}]
    /\ secret' = IF stClientNil
                   THEN secret
                   ELSE [exists |-> TRUE, data |-> SnapshotData(credentials')]

\* Store.LoadFromFiles(cluster, cfg.TokenPath, cfg.CACert) with readable
\* files: the entry becomes what the files hold.
LoadFromFiles(c) ==
    /\ credentials' = MapAssign(credentials, c, Creds(rnFiles.token, rnFiles.ca))
    /\ writes' = [writes EXCEPT ![c] = @ + 1]
    /\ installed' = [installed EXCEPT ![c] = @ \cup {Creds(rnFiles.token, rnFiles.ca)}]
    /\ UNCHANGED secret

\* A plausible slip: renewLoop returns when renew returns an error.
StopOnError(r) == IF r.wrap # "" THEN "stopped" ELSE "idle"

\* renewLoop: the error of renew is logged and the loop goes on to the
\* select, as after a renewal that succeeded.
AfterRenew(r) == "idle"

\* renew returns.
Return(r) ==
    /\ rnRet' = r
    /\ rnpc' = AfterRenew(r)

\* renew is called by renewLoop (the initial renewal or a tick of the
\* ticker): the credentials are fetched from the Store and, when the Store
\* has none, seeded from the bootstrap files.
RenewBegin ==
    /\ RNFrame /\ CacheUntouched
    /\ rnpc = "idle"
    /\ rnTicks < MaxTicks
    /\ rnTicks' = rnTicks + 1
    /\ rnStart' = credentials
    /\ rnAttempt' = 0
    /\ rnErr' = ""
    /\ rnRetryErr' = ""
    /\ rnLeft' = NotComputed
    /\ rnNew' = NoCreds
    /\ UNCHANGED <<rnCtxDone, rnCfg, rnVerifierNil, rnFiles, rnIssued>>
    /\ IF credentials[RenewCluster].present
         THEN /\ StoreUntouched
              /\ rnCreds' = credentials[RenewCluster]
              /\ rnLog' = <<>>
              /\ rnRet' = NotReturned
              /\ rnpc' = "check"
         ELSE IF BootstrapConfigured
           THEN IF rnFiles.readable
                  THEN /\ LoadFromFiles(RenewCluster)
                       /\ rnCreds' = credentials'[RenewCluster]
                       /\ rnLog' = <<"LoadFromFiles">>
                       /\ rnRet' = NotReturned
                       /\ rnpc' = "check"
                  ELSE /\ StoreUntouched
                       /\ rnCreds' = NoCreds
                       /\ rnLog' = <<"LoadFromFiles">>
                       /\ Return(ReturnError("loading bootstrap credentials",
                                             "reading file"))
           ELSE /\ StoreUntouched
                /\ rnCreds' = NoCreds
                /\ rnLog' = <<>>
                /\ Return(ReturnError("no credentials available", ""))

\* A plausible slip: the comparison with renewBefore is the wrong way round.
RenewalSkippedWhenDue(left) == left < RenewBefore

\* timeUntilExpiry > renewBefore
RenewalSkipped(left) == left > RenewBefore

\* renew: the expiry of the token is compared with renewBefore; a token
\* whose expiry cannot be read is renewed.
RenewCheck(left) ==
    /\ RNFrame /\ CacheUntouched /\ StoreUntouched
    /\ rnpc = "check"
    /\ IF ExpiryKnown(rnCreds.token) THEN left \in HoursLeft ELSE left = NotComputed
    /\ rnLeft' = left
    /\ IF ExpiryKnown(rnCreds.token) /\ RenewalSkipped(left)
         THEN /\ rnLog' = Append(rnLog, "Skip")
              /\ Return(ReturnNil)
         ELSE /\ rnLog' = rnLog
              /\ rnRet' = rnRet
              /\ rnpc' = "request"
    /\ UNCHANGED <<rnCtxDone, rnCfg, rnVerifierNil, rnFiles, rnCreds, rnNew, rnAttempt, rnErr,
                   rnRetryErr, rnStart, rnIssued, rnTicks>>

\* renew after requestNewToken returned err: the first call is followed by
\* the fallback, the second one ends the tick.
\* return fmt.Errorf("requesting token with bootstrap credentials: %w", retryErr)
RetryFailed(first, retry) ==
    ReturnError("requesting token with bootstrap credentials", retry)

RequestFailed(e) ==
    IF rnAttempt = 0
      THEN /\ rnErr' = e
           /\ rnRetryErr' = rnRetryErr
           /\ rnRet' = rnRet
           /\ rnpc' = "fallback"
      ELSE /\ rnErr' = rnErr
           /\ rnRetryErr' = e
           /\ Return(RetryFailed(rnErr, e))

\* The ways requestNewToken can go up to the TokenRequest, given the token
\* it authenticates with.
RequestOutcomes(tok) ==
    IF SubjectKnown(tok)
      THEN {"creating k8s client", "token request", "ok"}
      ELSE {"parsing token subject"}

\* A plausible slip: the CA certificate is taken from the bootstrap file.
NewCredsWithFileCA(tok, creds) == Creds(tok, rnFiles.ca)

\* newCreds := &Credentials{Token: token.Status.Token, CACert: creds.CACert}
NewCreds(tok, creds) == Creds(tok, creds.ca)

\* requestNewToken(ctx, cluster, cfg, creds) up to CreateToken: the service
\* account is read from the token, the client is built from creds and the
\* TokenRequest is made.
RequestToken(outcome) ==
    /\ RNFrame /\ CacheUntouched /\ StoreUntouched
    /\ rnpc = "request"
    /\ outcome \in RequestOutcomes(rnCreds.token)
    /\ rnAttempt' = rnAttempt + 1
    /\ rnLog' = rnLog \o (IF outcome \in {"token request", "ok"}
                            THEN <<"Attempt", "TokenRequest">>
                            ELSE <<"Attempt">>)
    /\ IF outcome = "ok"
         THEN /\ rnIssued' = rnIssued + 1
              /\ rnNew' = NewCreds(IssuedToken(rnIssued + 1), rnCreds)
              /\ rnpc' = "store"
              /\ UNCHANGED <<rnErr, rnRetryErr, rnRet>>
         ELSE /\ UNCHANGED <<rnIssued, rnNew>>
              /\ RequestFailed(outcome)
    /\ UNCHANGED <<rnCtxDone, rnCfg, rnVerifierNil, rnFiles, rnCreds, rnStart, rnLeft, rnTicks>>

\* requestNewToken: r.credStore.Set(cluster, newCreds).  The map is written;
\* with a client the Secret is written too, and a failure of that makes
\* requestNewToken return "storing credentials".
StoreNewCreds(saved) ==
    /\ RNFrame /\ CacheUntouched
    /\ rnpc = "store"
    /\ stClientNil => saved
    /\ credentials' = MapAssign(credentials, RenewCluster, rnNew)
    /\ writes' = [writes EXCEPT ![RenewCluster] = @ + 1]
    /\ installed' = [installed EXCEPT ![RenewCluster] = @ \cup {rnNew}]
    /\ secret' = IF ~stClientNil /\ saved
                   THEN [exists |-> TRUE, data |-> SnapshotData(credentials')]
                   ELSE secret
    /\ rnLog' = Append(rnLog, "Set")
    /\ rnAttempt' = rnAttempt
    /\ IF saved
         THEN /\ rnpc' = "invalidate"
              /\ UNCHANGED <<rnErr, rnRetryErr, rnRet>>
         ELSE IF rnAttempt = 1
           THEN /\ rnErr' = "storing credentials"
                /\ rnRetryErr' = rnRetryErr
                /\ rnRet' = rnRet
                /\ rnpc' = "fallback"
           ELSE /\ rnErr' = rnErr
                /\ rnRetryErr' = "storing credentials"
                /\ Return(RetryFailed(rnErr, "storing credentials"))
    /\ UNCHANGED <<rnCtxDone, rnCfg, rnVerifierNil, rnFiles, rnCreds, rnNew, rnStart, rnLeft,
                   rnIssued, rnTicks>>

\* if r.verifier != nil
InvalidatorSet == ~rnVerifierNil

\* requestNewToken after Set: the cached verifier of the cluster is
\* invalidated, requestNewToken and renew return nil.
InvalidateAndReturn ==
    /\ RNFrame /\ StoreUntouched
    /\ rnpc = "invalidate"
    /\ IF InvalidatorSet
         THEN /\ verifiers' = [verifiers EXCEPT ![RenewCluster] = 0]
              /\ removed' = IF verifiers[RenewCluster] # 0
                              THEN removed \cup {verifiers[RenewCluster]}
                              ELSE removed
              /\ built' = [built EXCEPT ![RenewCluster] = 0]
              /\ rnLog' = Append(rnLog, "InvalidateVerifier")
         ELSE /\ CacheUntouched
              /\ rnLog' = rnLog
    /\ Return(ReturnNil)
    /\ UNCHANGED <<rnCtxDone, rnCfg, rnVerifierNil, rnFiles, rnCreds, rnNew, rnAttempt, rnErr,
                   rnRetryErr, rnStart, rnLeft, rnIssued, rnTicks>>

\* Store.LoadFromFiles(cluster, cfg.TokenPath, cfg.CACert): files that cannot
\* be read leave the Store as it is.
TryLoadFromFiles(c) == IF rnFiles.readable THEN LoadFromFiles(c) ELSE StoreUntouched

\* A plausible slip: loadErr is logged and the retry goes ahead.
FallbackAlwaysRetries == TRUE

\* loadErr == nil
FallbackRetries == rnFiles.readable

\* renew after the first requestNewToken failed: with bootstrap files
\* configured the Store entry is loaded from them and the request is made
\* once more with what the Store then holds; without, the error is returned.
Fallback ==
    /\ RNFrame /\ CacheUntouched
    /\ rnpc = "fallback"
    /\ IF BootstrapConfigured
         THEN /\ rnLog' = Append(rnLog, "LoadFromFiles")
              /\ TryLoadFromFiles(RenewCluster)
              /\ IF FallbackRetries
                   THEN /\ rnCreds' = credentials'[RenewCluster]
                        /\ rnRet' = rnRet
                        /\ rnpc' = "request"
                   ELSE /\ rnCreds' = rnCreds
                        /\ Return(ReturnError(
                               "requesting token (bootstrap fallback also failed)",
                               rnErr))
         ELSE /\ StoreUntouched
              /\ rnLog' = rnLog
              /\ rnCreds' = rnCreds
              /\ Return(ReturnError("requesting token", rnErr))
    /\ UNCHANGED <<rnCtxDone, rnCfg, rnVerifierNil, rnFiles, rnNew, rnAttempt, rnErr, rnRetryErr,
                   rnStart, rnLeft, rnIssued, rnTicks>>

\* The operator of the cluster replaces the bootstrap files after a tick
\* that returned an error (the log of a failed tick asks for it).
BootstrapFilesChange(f) ==
    /\ RNFrame /\ CacheUntouched /\ StoreUntouched
    /\ rnpc = "idle"
    /\ BootstrapConfigured
    /\ 0 < rnTicks /\ rnTicks < MaxTicks
    /\ rnRet # ReturnNil
    /\ f # rnFiles
    /\ rnFiles' = f
    /\ UNCHANGED <<rnCtxDone, rnCfg, rnVerifierNil, rnpc, rnCreds, rnNew, rnAttempt, rnErr,
                   rnRetryErr, rnRet, rnLog, rnStart, rnLeft, rnIssued, rnTicks>>

\* main: cancel(), on SIGINT or SIGTERM.
CancelContext ==
    /\ RNFrame /\ CacheUntouched /\ StoreUntouched
    /\ ~rnCtxDone
    /\ rnCtxDone' = TRUE
    /\ UNCHANGED <<rnCfg, rnVerifierNil, rnFiles, rnpc, rnCreds, rnNew, rnAttempt,
                   rnErr, rnRetryErr, rnRet, rnLog, rnStart, rnLeft, rnIssued, rnTicks>>

\* A plausible slip: the select has no case for ctx.Done().
CtxDoneIgnored == FALSE

\* case <-ctx.Done() is ready.
CtxDoneReady == rnCtxDone

\* renewLoop: after the initial renewal the loop waits in the select;
\* ctx.Done() is selected and the loop returns.
RenewLoopStop ==
    /\ RNFrame /\ CacheUntouched /\ StoreUntouched
    /\ rnpc = "idle"
    /\ rnTicks > 0
    /\ CtxDoneReady
    /\ rnpc' = "stopped"
    /\ UNCHANGED <<rnCtxDone, rnCfg, rnVerifierNil, rnFiles, rnCreds, rnNew, rnAttempt, rnErr,
                   rnRetryErr, rnRet, rnLog, rnStart, rnLeft, rnIssued, rnTicks>>

-----------------------------------------------------------------------------
(* kube-auth-proxy (package proxy): the auth-subrequest handler and the    *)
(* reverse proxy handler in front of an upstream.  A Go string is a        *)
(* sequence of units ("" is <<>>); an http.Header is a function from the   *)
(* names of the headers that are present to their values.                  *)

HeaderAuthorization == "Authorization"

HeaderAuthRequestUser == "X-Auth-Request-User"

HeaderAuthRequestGroups == "X-Auth-Request-Groups"

HeaderAuthRequestExtraCluster == "X-Auth-Request-Extra-Cluster-Name"

HeaderForwardedUser == "X-Forwarded-User"

HeaderForwardedGroups == "X-Forwarded-Groups"

HeaderForwardedExtraCluster == "X-Forwarded-Extra-Cluster-Name"

NoHeaders == [n \in {} |-> <<>>]

\* http.Header.Get: "" when the header is absent.
HeaderGet(h, n) == IF n \in DOMAIN h THEN h[n] ELSE <<>>

\* http.Header.Set.
HeaderSet(h, n, v) == [k \in DOMAIN h \cup {n} |-> IF k = n THEN v ELSE h[k]]

\* http.Header.Del.
HeaderDel(h, n) == [k \in DOMAIN h \ {n} |-> h[k]]

\* strings.HasPrefix and strings.TrimPrefix.
HasPrefix(s, p) == Len(s) >= Len(p) /\ SubSeq(s, 1, Len(p)) = p

TrimPrefix(s, p) == IF HasPrefix(s, p) THEN SubSeq(s, Len(p) + 1, Len(s)) ELSE s

BearerPrefix == <<"B", "e", "a", "r", "e", "r", " ">>

\* extractBearerToken.
extractBearerToken(h) ==
    LET auth == HeaderGet(h, HeaderAuthorization)
    IN  IF auth = <<>> THEN <<>>
        ELSE IF ~HasPrefix(auth, BearerPrefix) THEN <<>>
        ELSE TrimPrefix(auth, BearerPrefix)

\* strings.Join(groups, ",").
RECURSIVE JoinComma(_)
JoinComma(groups) ==
    IF Len(groups) = 0 THEN <<>>
    ELSE IF Len(groups) = 1 THEN groups[1]
    ELSE groups[1] \o <<",">> \o JoinComma(Tail(groups))

\* Authorization headers a client sends.
AuthorizationValues ==
    { BearerPrefix \o <<"t", "1">>,
      BearerPrefix \o <<"t", "2">>,
      BearerPrefix,
      <<"B", "e", "a", "r", "e", "r">>,
      <<"b", "e", "a", "r", "e", "r", " ", "t", "1">>,
      <<"B", "a", "s", "i", "c", " ", "t", "1">>,
      <<"t", "1">>,
      <<>> }

\* The identity headers of reverse proxy mode; a client may send any of
\* them itself.
IdentityHeaders == {HeaderForwardedUser, HeaderForwardedGroups, HeaderForwardedExtraCluster}

ClientValue == <<"forged">>

RequestHeaders ==
    { [n \in names |-> IF n = HeaderAuthorization THEN a ELSE ClientValue] :
        names \in SUBSET (IdentityHeaders \cup {HeaderAuthorization}),
        a \in AuthorizationValues }

\* What TokenReviewer.Review returns: an error, or a TokenReview.
NotReviewed ==
    [called |-> FALSE, err |-> FALSE, authenticated |-> FALSE, username |-> <<>>,
     groups |-> <<>>, extra |-> NoHeaders]

ReviewFailed ==
    [called |-> TRUE, err |-> TRUE, authenticated |-> FALSE, username |-> <<>>,
     groups |-> <<>>, extra |-> NoHeaders]

Usernames == {<<"alice">>, <<>>}

GroupLists == {<<>>, <<<<"g1">>>>, <<<<"g1">>, <<"g2">>>>}

ExtraMaps ==
    { NoHeaders,
      [k \in {ExtraKeyClusterName} |-> <<>>],
      [k \in {ExtraKeyClusterName} |-> <<<<"cluster-b">>>>],
      [k \in {ExtraKeyClusterName} |-> <<<<"cluster-b">>, <<"cluster-c">>>>] }

ReviewOutcomes ==
    {ReviewFailed}
    \cup { [called |-> TRUE, err |-> FALSE, authenticated |-> FALSE, username |-> u,
            groups |-> <<>>, extra |-> NoHeaders] : u \in Usernames }
    \cup { [called |-> TRUE, err |-> FALSE, authenticated |-> TRUE, username |-> u,
            groups |-> g, extra |-> e] :
            u \in Usernames, g \in GroupLists, e \in ExtraMaps }

\* Status codes the upstream answers with.
UpstreamCodes == {StatusOK, StatusUnauthorized, StatusInternalServerError}

NotContacted == [contacted |-> FALSE, header |-> NoHeaders]

PXFrame == UNCHANGED <<vmVars, wlVars, rqVars, stVars, rnVars, isoVars, jwVars, rpVars, csVars, vdVars>>

\* The checks on the result of Review, with the status ignored.
ReviewAcceptedWithoutStatus(result) == ~result.err

\* err == nil and result.Status.Authenticated.
ReviewAccepted(result) == ~result.err /\ result.authenticated

\* The identity headers set from the result: the user always, the groups
\* when there are any, the cluster name when the extra holds one.
IdentitySet(h, result, user, groups, cluster) ==
    LET h1 == HeaderSet(h, user, result.username)
        h2 == IF Len(result.groups) > 0
              THEN HeaderSet(h1, groups, JoinComma(result.groups))
              ELSE h1
    IN  IF ExtraKeyClusterName \in DOMAIN result.extra
           /\ Len(result.extra[ExtraKeyClusterName]) > 0
        THEN HeaderSet(h2, cluster, result.extra[ExtraKeyClusterName][1])
        ELSE h2

\* The reverse proxy with r.Header.Del("Authorization") left out.
KeepAuthorization(h) == h

\* r.Header.Del("Authorization").
StripAuthorization(h) == HeaderDel(h, HeaderAuthorization)

\* ServeHTTP of either handler up to the call of Review: a request without
\* a bearer token is answered 401 at once.
ServeBegin(kind, hdr) ==
    /\ pxpc \in {"idle", "done"}
    /\ px' = [pc |-> IF extractBearerToken(hdr) = <<>> THEN "done" ELSE "review",
              kind |-> kind,
              inHeader |-> hdr,
              req |-> hdr,
              token |-> extractBearerToken(hdr),
              result |-> NotReviewed,
              code |-> IF extractBearerToken(hdr) = <<>> THEN StatusUnauthorized ELSE 0,
              respHeader |-> NoHeaders,
              upstream |-> NotContacted]

\* AuthHandler.ServeHTTP, first part.
AuthServe(hdr) == PXFrame /\ ServeBegin("auth", hdr)

\* ReverseProxyHandler.ServeHTTP, first part.
ProxyServe(hdr) == PXFrame /\ ServeBegin("proxy", hdr)

\* AuthHandler.ServeHTTP after Review returned.
AuthReviewed(result) ==
    /\ PXFrame
    /\ pxpc = "review"
    /\ pxKind = "auth"
    /\ px' = IF ReviewAccepted(result)
               THEN [px EXCEPT !.result = result,
                               !.pc = "done",
                               !.respHeader = IdentitySet(pxRespHeader, result,
                                                          HeaderAuthRequestUser,
                                                          HeaderAuthRequestGroups,
                                                          HeaderAuthRequestExtraCluster),
                               !.code = StatusOK]
               ELSE [px EXCEPT !.result = result,
                               !.pc = "done",
                               !.code = StatusUnauthorized]

\* ReverseProxyHandler.ServeHTTP after Review returned; h.proxy.ServeHTTP
\* sends the request to the upstream and relays its answer.
ProxyReviewed(result, code) ==
    /\ PXFrame
    /\ pxpc = "review"
    /\ pxKind = "proxy"
    /\ LET forwarded == StripAuthorization(
                            IdentitySet(pxReq, result, HeaderForwardedUser,
                                        HeaderForwardedGroups, HeaderForwardedExtraCluster))
       IN  px' = IF ReviewAccepted(result)
                   THEN [px EXCEPT !.result = result,
                                   !.pc = "done",
                                   !.req = forwarded,
                                   !.upstream = [contacted |-> TRUE, header |-> forwarded],
                                   !.code = code]
                   ELSE [px EXCEPT !.result = result,
                                   !.pc = "done",
                                   !.code = StatusUnauthorized]

\* The proxy before its first request.
PXStart ==
    px = [pc |-> "idle", kind |-> "auth", inHeader |-> NoHeaders, req |-> NoHeaders,
          token |-> <<>>, result |-> NotReviewed, code |-> 0,
          respHeader |-> NoHeaders, upstream |-> NotContacted]

PXIdle == px = NotInUse

-----------------------------------------------------------------------------
(* Renewer.Start with two remote clusters: one renewLoop goroutine per     *)
(* cluster, all working on the one Store and the one VerifierManager.      *)
(* Each cluster has token_path and ca_cert configured.                     *)

LoopClusters == {"b", "c"}

\* The credentials of cluster c by origin: a Secret of an earlier run, the
\* bootstrap files, the TokenRequest API.
LoopCreds(c, origin) == [present |-> TRUE, token |-> c \o "-" \o origin \o "-token",
                         ca |-> c \o "-ca"]

LoopNoCreds == [present |-> FALSE, token |-> "", ca |-> ""]

\* A plausible slip: the goroutine is a closure over the range variable and
\* finds in it the cluster of the last iteration.
LoopVariableCaptured(c) == "c"

\* go r.renewLoop(ctx, clusterName, clusterCfg, interval): the arguments are
\* evaluated when the goroutine is started.
LoopArgument(c) == c

ISOFrame == UNCHANGED <<vmVars, wlVars, rqVars, stVars, rnVars, pxVars, jwVars, rpVars, csVars, vdVars>>

\* Start: one goroutine per remote cluster.
StartLoops ==
    /\ ISOFrame
    /\ \A c \in LoopClusters : isoPc[c] = "off"
    /\ iso' = [iso EXCEPT !.pc = [c \in LoopClusters |-> "wait"],
                          !.arg = [c \in LoopClusters |-> LoopArgument(c)],
                          !.actor = "Start"]

\* A step of the goroutine of c that leads it to pc: the position and the
\* local variables of every other goroutine are left alone.
LoopStep(r, c, pc) == [r EXCEPT !.pc[c] = pc, !.actor = c]

\* renew, called by the goroutine of c at startup or on a tick: Get, and
\* LoadFromFiles when the Store has no entry.
LoopRenewBegin(c, readable) ==
    /\ ISOFrame
    /\ isoPc[c] = "wait"
    /\ isoTicks[c] < MaxTicks
    /\ isoStore[isoArg[c]].present => readable
    /\ LET x == isoArg[c]
           begun == [iso EXCEPT !.ticks[c] = @ + 1,
                                !.attempt[c] = 0,
                                !.new[c] = LoopNoCreds]
       IN  iso' = IF isoStore[x].present
                    THEN LoopStep([begun EXCEPT !.local[c] = isoStore[x]], c, "check")
                  ELSE IF readable
                    THEN LoopStep([begun EXCEPT !.store[x] = LoopCreds(x, "boot"),
                                                !.local[c] = LoopCreds(x, "boot")],
                                  c, "check")
                  ELSE LoopStep([begun EXCEPT !.local[c] = LoopNoCreds], c, "wait")

\* renew: the expiry check; a token far from expiry ends the tick.
LoopRenewCheck(c, due) ==
    /\ ISOFrame
    /\ isoPc[c] = "check"
    /\ iso' = LoopStep(iso, c, IF due THEN "request" ELSE "wait")

\* requestNewToken up to the answer of the TokenRequest API.
LoopRequestToken(c, ok) ==
    /\ ISOFrame
    /\ isoPc[c] = "request"
    /\ LET tried == [iso EXCEPT !.attempt[c] = @ + 1] IN
       iso' = IF ok
                THEN LoopStep([tried EXCEPT !.new[c] =
                                  [LoopCreds(isoArg[c], "new") EXCEPT !.ca = isoLocal[c].ca]],
                              c, "store")
                ELSE LoopStep(tried, c, IF isoAttempt[c] = 0 THEN "fallback" ELSE "wait")

\* requestNewToken: r.credStore.Set(ctx, cluster, newCreds).
LoopStoreNewCreds(c, saved) ==
    /\ ISOFrame
    /\ isoPc[c] = "store"
    /\ iso' = LoopStep([iso EXCEPT !.store[isoArg[c]] = isoNew[c]], c,
                       IF saved THEN "invalidate"
                       ELSE IF isoAttempt[c] = 1 THEN "fallback" ELSE "wait")

\* requestNewToken: r.verifier.InvalidateVerifier(cluster), and return.
LoopInvalidate(c) ==
    /\ ISOFrame
    /\ isoPc[c] = "invalidate"
    /\ iso' = LoopStep([iso EXCEPT !.cache[isoArg[c]] = FALSE], c, "wait")

\* renew: the bootstrap fallback, LoadFromFiles and Get.
LoopFallback(c, readable) ==
    /\ ISOFrame
    /\ isoPc[c] = "fallback"
    /\ LET x == isoArg[c] IN
       iso' = IF readable
                THEN LoopStep([iso EXCEPT !.store[x] = LoopCreds(x, "boot"),
                                          !.local[c] = LoopCreds(x, "boot")],
                              c, "request")
                ELSE LoopStep(iso, c, "wait")

\* A Verify for cluster d constructs a verifier and caches it.
LoopVerifierBuilt(d) ==
    /\ ISOFrame
    /\ ~isoCache[d]
    /\ \A c \in LoopClusters : isoPc[c] # "off"
    /\ iso' = [iso EXCEPT !.cache[d] = TRUE, !.actor = "Verify"]

\* Before Start: the Store as NewStore and the bootstrap loading of main
\* left it.
ISODraw ==
    \E st \in [LoopClusters -> {LoopNoCreds}]
                 \cup {[c \in LoopClusters |-> LoopCreds(c, "old")]}
                 \cup {[c \in LoopClusters |-> LoopCreds(c, "boot")]} :
        iso = [store |-> st,
               cache |-> [c \in LoopClusters |-> FALSE],
               pc |-> [c \in LoopClusters |-> "off"],
               arg |-> [c \in LoopClusters |-> ""],
               local |-> [c \in LoopClusters |-> LoopNoCreds],
               new |-> [c \in LoopClusters |-> LoopNoCreds],
               attempt |-> [c \in LoopClusters |-> 0],
               ticks |-> [c \in LoopClusters |-> 0],
               actor |-> "none"]

ISOIdle == iso = NotInUse

-----------------------------------------------------------------------------
(* The JWKS URL of a verifier (getOrCreateVerifier, rewriteJWKSURL).  A URL *)
(* is a sequence of units: the scheme with the host, then the segments of   *)
(* the path, each with its leading "/", and a query.                        *)

MaxPathLen == 4

\* const pathPrefix = "/openid/v1/jwks"
JWKSPathPrefix == <<"/openid", "/v1", "/jwks">>

URLOrigins == {"https://kubernetes.default.svc", "https://issuer.example.com"}

URLSegments == {"/openid", "/v1", "/jwks", "/tenant"}

URLPaths == UNION {[1..n -> URLSegments] : n \in 0..MaxPathLen}

\* The jwks_uri values a discovery document may hold.
DiscoveredURLs ==
    {<<o>> \o p : o \in URLOrigins, p \in URLPaths}
      \cup {<<o>> \o JWKSPathPrefix \o <<"?v=1">> : o \in URLOrigins}

\* cfg.APIServer: empty for a local cluster; a remote one may be written
\* with a trailing "/".
APIServerValues ==
    {<<>>} \cup {Str(APIServer(c)) : c \in {d \in Clusters : IsRemote(d)}}
           \cup {Str(APIServer(c)) \o <<"/">> : c \in {d \in Clusters : IsRemote(d)}}

\* strings.Contains
StringsContains(s, sub) ==
    \E i \in 0..(Len(s) - Len(sub)) : SubSeq(s, i + 1, i + Len(sub)) = sub

\* rewriteJWKSURL
rewriteJWKSURL(jwksURL, apiServer) ==
    IF StringsContains(jwksURL, JWKSPathPrefix)
      THEN TrimSuffix(apiServer, "/") \o JWKSPathPrefix
      ELSE jwksURL

\* getOrCreateVerifier: jwksURL := discovery.JWKSURL, rewritten when
\* cfg.APIServer != "".
VerifierJWKSURL(discovered, apiServer) ==
    IF apiServer # <<>> THEN rewriteJWKSURL(discovered, apiServer) ELSE discovered

JWFrame == UNCHANGED <<vmVars, wlVars, rqVars, stVars, rnVars, pxVars, isoVars, rpVars, csVars, vdVars>>

\* getOrCreateVerifier from the discovery document to oidc.NewRemoteKeySet.
NewRemoteKeySet ==
    /\ JWFrame
    /\ jwpc = "discovered"
    /\ jw' = [jw EXCEPT !.url = VerifierJWKSURL(jwDiscovered, jwAPIServer),
                        !.pc = "keyset"]

JWDraw ==
    \E apiServer \in APIServerValues, discovered \in DiscoveredURLs :
        jw = [pc |-> "discovered", apiServer |-> apiServer, discovered |-> discovered,
              url |-> <<>>]

JWIdle == jw = NotInUse

-----------------------------------------------------------------------------
(* The same request served twice by the same handler: what the first       *)
(* serving did is kept for comparison.                                     *)

RPFrame == UNCHANGED <<wlVars, stVars, vmRest, rnVars, pxVars, isoVars, jwVars, csVars, vdVars>>

\* The request that has been answered arrives once more, unchanged.
RepeatRequest ==
    /\ RPFrame /\ VMUntouched
    /\ hpc = "done"
    /\ ~rpAsked
    /\ rp' = [asked |-> TRUE, callerCluster |-> callerCluster, detected |-> detected,
              result |-> hresult, resp |-> resp, callerTried |-> callerTried,
              detTried |-> detTried]
    /\ reqCount' = reqCount + 1
    /\ hpc' = "start"
    /\ hremaining' = {}
    /\ callerCluster' = NoCluster
    /\ callerClaims' = NoClaims
    /\ detected' = NoCluster
    /\ hresult' = NoResult
    /\ fwdConfig' = NoRestConfig
    /\ resp' = NoResp
    /\ callerTried' = [c \in Clusters |-> "none"]
    /\ detTried' = [c \in Clusters |-> "none"]
    /\ detResult' = "none"
    /\ hlog' = <<>>
    /\ UNCHANGED <<hVerifierNil, hConfigNil, hStoreNil, hAuthorized, rqAuth, rqBody>>

\* What Verify(c, tok) has returned while the request was served, the
\* first time or the second: "none" when it has not been called.
VerifyOutcomeSeen(c, tok) ==
    LET seen == ({rpCallerTried[c], callerTried[c]} \cap
                    (IF rqAuth.token = tok THEN {"ok", "creating verifier", "verifying token"} ELSE {}))
                \cup ({rpDetTried[c], detTried[c]} \cap
                    (IF rqBody.token = tok THEN {"ok", "creating verifier", "verifying token"} ELSE {}))
    IN IF seen = {} THEN "none" ELSE CHOOSE o \in seen : TRUE

\* Fixed verifier outcomes per (cluster, token): Verify returns for (c, tok)
\* what it returned before.
OutcomeAsBefore(c, tok, o) == VerifyOutcomeSeen(c, tok) \in {"none", o}

\* The error of a forward that failed, as the response reports it.
ForwardErrorOf(r) ==
    IF \E e \in ForwardErrors : r.error = "failed to validate token: " \o e
      THEN CHOOSE e \in ForwardErrors : r.error = "failed to validate token: " \o e
      ELSE ""

\* Fixed remote responses: the cluster that answered the first serving
\* answers the second the same way.
AnswerAsBefore(err, r) ==
    (rpAsked /\ detected = rpDetected) =>
        (err = ForwardErrorOf(rpResp) /\ (err = "" => SetTypeMeta(r) = rpResult))

\* authenticateCaller's Verify in a world of fixed verifier outcomes.
FixedCallerVerify(c, o) == OutcomeAsBefore(c, rqAuth.token, o) /\ CallerVerify(c, o)

\* detectCluster's Verify in a world of fixed verifier outcomes.
FixedDetectVerify(c, o) == OutcomeAsBefore(c, rqBody.token, o) /\ DetectVerify(c, o)

\* forwardTokenReview in a world of fixed remote responses.
FixedForward(inCluster, err, r) ==
    AnswerAsBefore(err, r) /\ ForwardTokenReview(inCluster, err, r)

\* No request has been repeated.
RPStart ==
    rp = [asked |-> FALSE, callerCluster |-> NoCluster, detected |-> NoCluster,
          result |-> NoResult, resp |-> NoResp,
          callerTried |-> [c \in Clusters |-> "none"],
          detTried |-> [c \in Clusters |-> "none"]]

RPIdle == rp = NotInUse

-----------------------------------------------------------------------------
(* Store.Set called concurrently by the renewLoop goroutines of two remote *)
(* clusters, on a Store with persistence.  Each goroutine sets the entry   *)
(* of its own cluster.                                                     *)

MaxSetCalls == 2

\* The credentials of cluster c: the bootstrap ones (n = 0) and the ones the
\* n-th Set installs.
IssuedCreds(c, n) == Creds(<<c, "token", n>>, <<c, "ca">>)

\* saveToSecret: data built from a copy of the map over the two clusters.
PairSnapshot(m) ==
    LET P == {c \in LoopClusters : m[c].present} IN
    LET tokens == [k \in {TokenKey(c) : c \in P} |->
                      m[CHOOSE c \in P : TokenKey(c) = k].token]
        cas == [k \in {CAKey(c) : c \in P} |->
                   m[CHOOSE c \in P : CAKey(c) = k].ca]
    IN  cas @@ tokens

CSFrame == UNCHANGED <<vmVars, wlVars, rqVars, stVars, rnVars, pxVars, isoVars, jwVars, rpVars, vdVars>>

\* requestNewToken calls r.credStore.Set(clusterName, newCreds).
PairSetCall(c) ==
    /\ CSFrame
    /\ csPc[c] = "idle"
    /\ csCalls[c] < MaxSetCalls
    /\ cs' = [cs EXCEPT !.calls[c] = @ + 1, !.pc[c] = "swap"]

\* Store.Set: s.mu.Lock(); s.credentials[cluster] = creds; s.mu.Unlock().
PairSetSwap(c) ==
    /\ CSFrame
    /\ csPc[c] = "swap"
    /\ cs' = [cs EXCEPT !.cache[c] = IssuedCreds(c, csCalls[c]),
                        !.writes = @ + 1,
                        !.pc[c] = "save"]

\* saveToSecret: s.mu.RLock(); copy of every entry into data; s.mu.RUnlock().
PairSaveSnapshot(c) ==
    /\ CSFrame
    /\ csPc[c] = "save"
    /\ cs' = [cs EXCEPT !.snap[c] = PairSnapshot(csCache),
                        !.snapAt[c] = csWrites,
                        !.pc[c] = "update"]

\* saveToSecret: Update, Create when the Secret is not found; Set returns
\* the error or nil.
PairSaveUpdate(c, outcome) ==
    /\ CSFrame
    /\ csPc[c] = "update"
    /\ outcome \in IF csSecret.exists
                     THEN {"updated", "update failed"}
                     ELSE {"created", "create failed", "update failed"}
    /\ cs' = IF outcome \in {"updated", "created"}
               THEN [cs EXCEPT !.secret = [exists |-> TRUE, data |-> csSnap[c]],
                               !.secretAt = csSnapAt[c],
                               !.newest = IF csSnapAt[c] > @ THEN csSnapAt[c] ELSE @,
                               !.pc[c] = "idle"]
               ELSE [cs EXCEPT !.failed = TRUE, !.pc[c] = "idle"]

\* The Store before any Set call, with the map m and the Secret sec.
PairStore(m, sec) ==
    [cache |-> m, secret |-> sec,
     pc |-> [c \in LoopClusters |-> "idle"],
     snap |-> [c \in LoopClusters |-> <<>>],
     snapAt |-> [c \in LoopClusters |-> 0],
     writes |-> 0, secretAt |-> 0, newest |-> 0,
     calls |-> [c \in LoopClusters |-> 0],
     failed |-> FALSE]

\* The map holds the bootstrap credentials of both clusters: main has
\* loaded them from the files and there is no Secret yet, or NewStore has
\* loaded them from the Secret.
CSDraw ==
    \E sec \in {NoSecret,
                 [exists |-> TRUE,
                  data |-> PairSnapshot([c \in LoopClusters |-> IssuedCreds(c, 0)])]} :
        cs = PairStore([c \in LoopClusters |-> IssuedCreds(c, 0)], sec)

CSIdle == cs = NotInUse

-----------------------------------------------------------------------------
(* The /validate endpoint (ValidateHandler).  An error text is a sequence  *)
(* of units; the phrases mapError looks for are units of their own.        *)

MaxValidations == 2

\* Request bodies: not JSON, or a ValidateRequest.
ValidateBodies ==
    { [decodable |-> d, cluster |-> c, token |-> t] :
        d \in BOOLEAN, c \in ClusterNames \cup {""}, t \in {"", "tA", "tBad"} }

\* Verify: fmt.Errorf("cluster not found: %s", clusterName)
ErrClusterNotFound(c) == <<"cluster not found", ": ", c>>

\* Verify: fmt.Errorf("creating verifier: %w", err)
ErrCreatingVerifier(inner) == <<"creating verifier", ": ">> \o inner

\* Verify: fmt.Errorf("verifying token: %w", err)
ErrVerifyingToken(inner) == <<"verifying token", ": ">> \o inner

\* Verify: fmt.Errorf("parsing claims: %w", err)
ErrParsingClaims(inner) == <<"parsing claims", ": ">> \o inner

\* getOrCreateVerifier: fmt.Errorf("fetching OIDC discovery from %s: %w", ...)
\* around the errors of fetchDiscovery.
DiscoveryErrors(c) ==
    { <<"fetching ", "OIDC", " ", "discovery", " from ",
        IF IsRemote(c) THEN APIServer(c) ELSE Issuer(c), ": ">> \o inner :
        inner \in { <<"fetching ", "discovery", ": ", "connection refused">>,
                    <<"discovery", " returned status ", "503">>,
                    <<"decoding ", "discovery", ": ", "unexpected EOF">> } }

\* createHTTPClient
HTTPClientErrors ==
    { <<"reading CA cert", ": ", "no such file">>, <<"failed to parse CA cert">>,
      <<"reading token", ": ", "no such file">> }

\* What verifier.Verify of the OIDC library reports for a token: texts of
\* the library, of which mapError expects "token is expired" and
\* "signature".  A failed key fetch is reported by the library as a failed
\* signature verification, or by a transport with a text of its own.
ExpiredErrors == { <<"oidc: ", "token is expired", " (Token Expiry: 2024-01-15)">> }

SignatureErrors == { <<"failed to verify ", "signature", ": ", "no key matches">> }

MalformedErrors ==
    { <<"oidc: malformed jwt: ", "must have three parts">>,
      <<"oidc: malformed jwt payload: ", "illegal base64 data">> }

KeyFetchErrors ==
    { <<"failed to verify ", "signature", ": ", "fetching keys ", "oidc: get keys failed">>,
      <<"fetching ", "JWKS", ": ", "connection refused">> }

\* How Verify(cluster, token) can end, with the text of its error.
VerifyResults(c) ==
    IF c \notin Clusters
      THEN { [kind |-> "unknown cluster", err |-> ErrClusterNotFound(c)] }
      ELSE { [kind |-> "ok", err |-> <<>>] }
        \cup { [kind |-> "discovery failed", err |-> ErrCreatingVerifier(e)] :
                 e \in DiscoveryErrors(c) }
        \cup { [kind |-> "http client", err |-> ErrCreatingVerifier(e)] :
                 e \in HTTPClientErrors }
        \cup { [kind |-> "token expired", err |-> ErrVerifyingToken(e)] : e \in ExpiredErrors }
        \cup { [kind |-> "signature mismatch", err |-> ErrVerifyingToken(e)] :
                 e \in SignatureErrors }
        \cup { [kind |-> "malformed JWT", err |-> ErrVerifyingToken(e)] : e \in MalformedErrors }
        \cup { [kind |-> "JWKS fetch failed", err |-> ErrVerifyingToken(e)] :
                 e \in KeyFetchErrors }
        \cup { [kind |-> "claims", err |-> ErrParsingClaims(<<"unexpected end of JSON input">>)] }

\* mapError
mapError(errStr) ==
    IF StringsContains(errStr, <<"cluster not found">>)
      THEN [code |-> StatusBadRequest, error |-> "cluster_not_found"]
    ELSE IF StringsContains(errStr, <<"token is expired">>)
      THEN [code |-> StatusUnauthorized, error |-> "token_expired"]
    ELSE IF StringsContains(errStr, <<"signature">>)
            \/ StringsContains(errStr, <<"verifying token">>)
      THEN [code |-> StatusUnauthorized, error |-> "invalid_signature"]
    ELSE IF StringsContains(errStr, <<"OIDC provider">>)
            \/ StringsContains(errStr, <<"discovery">>)
      THEN [code |-> StatusInternalServerError, error |-> "oidc_discovery_failed"]
    ELSE IF StringsContains(errStr, <<"JWKS">>)
      THEN [code |-> StatusInternalServerError, error |-> "jwks_fetch_failed"]
    ELSE [code |-> StatusUnauthorized, error |-> "invalid_token"]

VDFrame == UNCHANGED <<vmVars, wlVars, rqVars, stVars, rnVars, pxVars, isoVars, jwVars, rpVars, csVars>>

\* A request arrives at POST /validate.
ValidateArrive(body) ==
    /\ VDFrame
    /\ vdpc \in {"idle", "done"}
    /\ vdCount < MaxValidations
    /\ vd' = [pc |-> "received", req |-> body, kind |-> "none", err |-> <<>>,
              code |-> 0, error |-> "", count |-> vdCount + 1]

\* ValidateHandler.ServeHTTP: decoding and the check of the two fields.
ValidateDecode ==
    /\ VDFrame
    /\ vdpc = "received"
    /\ vd' = IF ~vdReq.decodable \/ vdReq.cluster = "" \/ vdReq.token = ""
               THEN [vd EXCEPT !.code = StatusBadRequest,
                               !.error = "invalid_request",
                               !.pc = "done"]
               ELSE [vd EXCEPT !.pc = "verify"]

\* ValidateHandler.ServeHTTP: h.verifier.Verify, and mapError on its error.
ValidateVerify(res) ==
    /\ VDFrame
    /\ vdpc = "verify"
    /\ res \in VerifyResults(vdReq.cluster)
    /\ vd' = [vd EXCEPT !.kind = res.kind,
                        !.err = res.err,
                        !.code = IF res.kind = "ok"
                                   THEN StatusOK ELSE mapError(res.err).code,
                        !.error = IF res.kind = "ok"
                                    THEN "" ELSE mapError(res.err).error,
                        !.pc = "done"]

\* No request has arrived at /validate.
VDStart ==
    vd = [pc |-> "idle", req |-> [decodable |-> FALSE, cluster |-> "", token |-> ""],
          kind |-> "none", err |-> <<>>, code |-> 0, error |-> "", count |-> 0]

VDIdle == vd = NotInUse

\* The Renewer before Start.
RNIdle ==
    /\ rnCfg = [TokenPath |-> TokenPath(RenewCluster), CACert |-> CACert(RenewCluster)]
    /\ rnVerifierNil = FALSE
    /\ rnFiles = NoFiles
    /\ rnpc = "idle"
    /\ rnCreds = NoCreds
    /\ rnNew = NoCreds
    /\ rnAttempt = 0
    /\ rnErr = ""
    /\ rnRetryErr = ""
    /\ rnRet = NotReturned
    /\ rnLog = <<>>
    /\ rnStart = [c \in Clusters |-> NoCreds]
    /\ rnLeft = NotComputed
    /\ rnIssued = 0
    /\ rnTicks = 0
    /\ rnCtxDone = FALSE

-----------------------------------------------------------------------------
(* Initial states and specifications.                                      *)

\* Credentials the Store may hold for the remote cluster when requests are
\* served.
BootCreds == [present |-> TRUE, token |-> "boot-token", ca |-> "boot-ca"]

RQIdle ==
    /\ hVerifierNil = FALSE
    /\ hConfigNil = FALSE
    /\ hStoreNil = FALSE
    /\ hAuthorized = <<>>
    /\ rqAuth = [scheme |-> "", token |-> ""]
    /\ rqBody = [decodable |-> FALSE, token |-> ""]
    /\ hpc = "done"
    /\ hremaining = {}
    /\ callerCluster = NoCluster
    /\ callerClaims = NoClaims
    /\ detected = NoCluster
    /\ hresult = NoResult
    /\ fwdConfig = NoRestConfig
    /\ resp = NoResp
    /\ callerTried = [c \in Clusters |-> "none"]
    /\ detTried = [c \in Clusters |-> "none"]
    /\ detResult = "none"
    /\ hlog = <<>>
    /\ reqCount = 0

STIdle == credentials = [c \in Clusters |-> NoCreds] /\ STRestIdle

\* NewTokenReviewHandler(v, cfg, store) with the first request.
RQDraw ==
    /\ hVerifierNil \in BOOLEAN
    /\ hConfigNil \in BOOLEAN
    /\ hStoreNil \in BOOLEAN
    /\ hAuthorized \in IF hConfigNil THEN {<<>>} ELSE HandlerWhitelists
    /\ credentials \in IF hStoreNil
                         THEN {[c \in Clusters |-> NoCreds]}
                         ELSE {[c \in Clusters |-> NoCreds],
                               [c \in Clusters |-> IF IsRemote(c) THEN BootCreds ELSE NoCreds]}
    /\ STRestIdle
    /\ rqAuth \in AuthHeaders
    /\ rqBody \in Bodies
    /\ hpc = "start"
    /\ hremaining = {}
    /\ callerCluster = NoCluster
    /\ callerClaims = NoClaims
    /\ detected = NoCluster
    /\ hresult = NoResult
    /\ fwdConfig = NoRestConfig
    /\ resp = NoResp
    /\ callerTried = [c \in Clusters |-> "none"]
    /\ detTried = [c \in Clusters |-> "none"]
    /\ detResult = "none"
    /\ hlog = <<>>
    /\ reqCount = 1

VMIdle ==
    /\ verifiers = [c \in Clusters |-> 0]
    /\ vmWriter = NoThread
    /\ vmReaders = {}
    /\ vpc = [t \in VMThreads |-> "idle"]
    /\ vcluster = [t \in VMThreads |-> "a"]
    /\ vlocal = [t \in VMThreads |-> 0]
    /\ vpath = [t \in VMThreads |-> "none"]
    /\ vresult = [t \in VMThreads |-> "none"]
    /\ vused = [t \in VMThreads |-> 0]
    /\ vcalls = [t \in VMThreads |-> 0]
    /\ nextId = 0
    /\ built = [c \in Clusters |-> 0]
    /\ removed = {}
    /\ removedAtStart = [t \in VMThreads |-> {}]
    /\ invCount = 0

WLIdle ==
    /\ wlEntries = <<>>
    /\ wlTriple = <<<<>>, <<>>, <<>>>>
    /\ wlResult = "none"

VMInit == VMIdle /\ WLIdle /\ RQIdle /\ STIdle /\ RNIdle /\ PXIdle /\ ISOIdle /\ JWIdle /\ RPIdle /\ CSIdle /\ VDIdle

VMNext ==
    \/ \E t \in VMThreads, c \in ClusterNames : VerifyCall(t, c)
    \/ \E t \in VMThreads : RLock(t)
    \/ \E t \in VMThreads : ReadCheck(t)
    \/ \E t \in VMThreads : Lock(t)
    \/ \E t \in VMThreads : DoubleCheck(t)
    \/ \E t \in VMThreads, ok \in BOOLEAN : CreateHTTPClient(t, ok)
    \/ \E t \in VMThreads, ok \in BOOLEAN : FetchDiscovery(t, ok)
    \/ \E t \in VMThreads : Install(t)
    \/ \E t \in VMThreads, ok \in BOOLEAN : VerifyToken(t, ok)
    \/ \E c \in Clusters : InvalidateVerifier(c)

SpecVM == VMInit /\ [][VMNext]_vars

WLNext == WLCheck

WLInit == VMIdle /\ WLDraw /\ RQIdle /\ STIdle /\ RNIdle /\ PXIdle /\ ISOIdle /\ JWIdle /\ RPIdle /\ CSIdle /\ VDIdle

SpecWL == WLInit /\ [][WLNext]_vars

RQInit == VMIdle /\ WLIdle /\ RQDraw /\ RNIdle /\ PXIdle /\ ISOIdle /\ JWIdle /\ RPIdle /\ CSIdle /\ VDIdle

RQNext ==
    \/ ServeStart
    \/ AuthHeaderCheck
    \/ \E c \in Clusters, o \in {"ok", "creating verifier", "verifying token"} :
          CallerVerify(c, o)
    \/ CallerAuthorize
    \/ ParseBody
    \/ \E c \in Clusters, o \in {"ok", "creating verifier", "verifying token"} :
          DetectVerify(c, o)
    \/ \E inCluster \in BOOLEAN, err \in ForwardErrors : ForwardTokenReview(inCluster, err, NoResult)
    \/ \E inCluster \in BOOLEAN, r \in RemoteResults : ForwardTokenReview(inCluster, "", r)
    \/ Respond
    \/ \E auth \in AuthHeaders, body \in Bodies : NextRequest(auth, body)

SpecReq == RQInit /\ [][RQNext]_vars

STInit == VMIdle /\ WLIdle /\ RQIdle /\ STDraw /\ RNIdle /\ PXIdle /\ ISOIdle /\ JWIdle /\ RPIdle /\ CSIdle /\ VDIdle

STNext ==
    \/ \E t \in STThreads, c \in StoreClusters : GetCall(t, c)
    \/ \E t \in STThreads : GetRLock(t)
    \/ \E t \in STThreads : GetRead(t)
    \/ \E t \in STThreads, c \in StoreClusters, v \in SetValues : SetCall(t, c, v)
    \/ \E t \in STThreads, c \in StoreClusters, read \in FileReads :
          LoadFromFilesCall(t, c, read)
    \/ \E t \in STThreads, c \in StoreClusters : LoadBootstrapCall(t, c)
    \/ \E t \in STThreads : LoadBootstrapRLock(t)
    \/ \E t \in STThreads, ok \in BOOLEAN : LoadBootstrapRead(t, ok)
    \/ \E t \in STThreads : StoreLock(t)
    \/ \E t \in STThreads : WriteBegin(t)
    \/ \E t \in STThreads : WriteEnd(t)
    \/ \E t \in STThreads : SetSkipSave(t)
    \/ \E t \in STThreads : SaveSnapshot(t)
    \/ \E t \in STThreads, outcome \in {"updated", "created", "create failed", "update failed"} :
          SaveUpdate(t, outcome)

SpecStore == STInit /\ [][STNext]_vars

\* NewRenewer(cfg, store, verifier) and the bootstrap files.
RNDraw ==
    /\ rnCfg \in {[TokenPath |-> TokenPath(RenewCluster), CACert |-> CACert(RenewCluster)],
                  [TokenPath |-> "", CACert |-> ""]}
    /\ rnVerifierNil \in BOOLEAN
    /\ rnFiles \in IF BootstrapConfigured THEN FileStates ELSE {NoFiles}
    /\ rnpc = "idle"
    /\ rnCreds = NoCreds
    /\ rnNew = NoCreds
    /\ rnAttempt = 0
    /\ rnErr = ""
    /\ rnRetryErr = ""
    /\ rnRet = NotReturned
    /\ rnLog = <<>>
    /\ rnStart = [c \in Clusters |-> NoCreds]
    /\ rnLeft = NotComputed
    /\ rnIssued = 0
    /\ rnTicks = 0
    /\ rnCtxDone = FALSE

\* The Store when the Renewer starts: NewStore has loaded the Secret, if
\* there is a client and a Secret, and main has called
\* LoadBootstrapFromFiles for a cluster with token_path and ca_cert.
RNStoreDraw ==
    /\ stClientNil \in BOOLEAN
    /\ secret \in IF stClientNil
                    THEN {NoSecret}
                    ELSE {NoSecret} \cup
                         {[exists |-> TRUE,
                           data |-> SnapshotData([c \in Clusters |->
                                       IF c = RenewCluster THEN v ELSE NoCreds])] :
                            v \in SecretStates}
    /\ credentials =
          LET loaded == IF secret.exists
                          THEN LoadedFromSecret(secret.data)
                          ELSE [c \in Clusters |-> NoCreds]
          IN  IF /\ BootstrapConfigured
                 /\ ~loaded[RenewCluster].present
                 /\ rnFiles.readable
                THEN MapAssign(loaded, RenewCluster, Creds(rnFiles.token, rnFiles.ca))
                ELSE loaded
    /\ installed = [c \in Clusters |->
                      IF credentials[c].present THEN {credentials[c]} ELSE {}]
    /\ writes = [c \in Clusters |-> 0]
    /\ stWriter = NoThread
    /\ stReaders = {}
    /\ stpc = [t \in STThreads |-> "idle"]
    /\ stcall = [t \in STThreads |-> NoCall]
    /\ stret = [t \in STThreads |-> NoCreds]
    /\ sterr = [t \in STThreads |-> ""]
    /\ stsnap = [t \in STThreads |-> <<>>]
    /\ ststamp = [t \in STThreads |-> 0]
    /\ setDone = [c \in Clusters |-> NoSetDone]
    /\ need = [t \in STThreads |-> NoSetDone]
    /\ readStamp = [t \in STThreads |-> 0]
    /\ stOps = 0
    /\ lbHad = [t \in STThreads |-> FALSE]
    /\ snapStamp = [t \in STThreads |-> 0]

\* The verifier cache when the Renewer starts: requests served so far may
\* have left a verifier of the cluster in it.
RNCacheDraw ==
    /\ verifiers \in {[c \in Clusters |-> 0],
                      [c \in Clusters |-> IF c = RenewCluster THEN 1 ELSE 0]}
    /\ nextId = verifiers[RenewCluster]
    /\ built = [c \in Clusters |-> verifiers[c]]
    /\ vmWriter = NoThread
    /\ vmReaders = {}
    /\ vpc = [t \in VMThreads |-> "idle"]
    /\ vcluster = [t \in VMThreads |-> "a"]
    /\ vlocal = [t \in VMThreads |-> 0]
    /\ vpath = [t \in VMThreads |-> "none"]
    /\ vresult = [t \in VMThreads |-> "none"]
    /\ vused = [t \in VMThreads |-> 0]
    /\ vcalls = [t \in VMThreads |-> 0]
    /\ removed = {}
    /\ removedAtStart = [t \in VMThreads |-> {}]
    /\ invCount = 0

RNInit == RNDraw /\ RNStoreDraw /\ RNCacheDraw /\ WLIdle /\ RQIdle /\ PXIdle /\ ISOIdle /\ JWIdle /\ RPIdle /\ CSIdle /\ VDIdle

RNNext ==
    \/ RenewBegin
    \/ \E left \in HoursLeft \cup {NotComputed} : RenewCheck(left)
    \/ \E outcome \in {"parsing token subject", "creating k8s client",
                        "token request", "ok"} : RequestToken(outcome)
    \/ \E saved \in BOOLEAN : StoreNewCreds(saved)
    \/ InvalidateAndReturn
    \/ Fallback
    \/ \E f \in FileStates : BootstrapFilesChange(f)
    \/ CancelContext
    \/ RenewLoopStop

SpecRenew == RNInit /\ [][RNNext]_vars

\* The renewLoop goroutine keeps running: a call it has made returns and the
\* next statement is executed.  In the select, a case that stays ready or
\* becomes ready again and again is chosen at some point (the choice among
\* the ready cases is random).  The ticker fires every interval.
RNFairness ==
    /\ WF_vars(RenewBegin)
    /\ WF_vars(\E left \in HoursLeft \cup {NotComputed} : RenewCheck(left))
    /\ WF_vars(\E outcome \in {"parsing token subject", "creating k8s client",
                                "token request", "ok"} : RequestToken(outcome))
    /\ WF_vars(\E saved \in BOOLEAN : StoreNewCreds(saved))
    /\ WF_vars(InvalidateAndReturn)
    /\ WF_vars(Fallback)
    /\ SF_vars(RenewLoopStop)

\* Termination does not depend on what the Store, the Secret and the files
\* hold: the loop is followed from the starts with a verifier given to the
\* Renewer, an empty verifier cache, bootstrap files that are missing or
\* good, and a Secret, if any, of an earlier run.
RNLiveInit ==
    /\ RNInit
    /\ ~rnVerifierNil
    /\ verifiers[RenewCluster] = 0
    /\ rnFiles \in {NoFiles, Files("boot-token", "boot-ca")}
    /\ secret.exists => credentials[RenewCluster] = StaleCreds

SpecRenewLive == RNLiveInit /\ [][RNNext]_vars /\ RNFairness

-----------------------------------------------------------------------------
(* The proxy serving requests one after another, in either mode. *)

PXInit == VMIdle /\ WLIdle /\ RQIdle /\ STIdle /\ RNIdle /\ PXStart /\ ISOIdle /\ JWIdle /\ RPIdle /\ CSIdle /\ VDIdle

PXNext ==
    \/ \E hdr \in RequestHeaders : AuthServe(hdr)
    \/ \E hdr \in RequestHeaders : ProxyServe(hdr)
    \/ \E result \in ReviewOutcomes : AuthReviewed(result)
    \/ \E result \in ReviewOutcomes, code \in UpstreamCodes : ProxyReviewed(result, code)

SpecProxy == PXInit /\ [][PXNext]_vars

-----------------------------------------------------------------------------
(* The renewal loops of two remote clusters, interleaved. *)

ISOInit == VMIdle /\ WLIdle /\ RQIdle /\ STIdle /\ RNIdle /\ PXIdle /\ ISODraw /\ JWIdle /\ RPIdle /\ CSIdle /\ VDIdle

ISONext ==
    \/ StartLoops
    \/ \E c \in LoopClusters, readable \in BOOLEAN : LoopRenewBegin(c, readable)
    \/ \E c \in LoopClusters, due \in BOOLEAN : LoopRenewCheck(c, due)
    \/ \E c \in LoopClusters, ok \in BOOLEAN : LoopRequestToken(c, ok)
    \/ \E c \in LoopClusters, saved \in BOOLEAN : LoopStoreNewCreds(c, saved)
    \/ \E c \in LoopClusters : LoopInvalidate(c)
    \/ \E c \in LoopClusters, readable \in BOOLEAN : LoopFallback(c, readable)
    \/ \E d \in LoopClusters : LoopVerifierBuilt(d)

SpecLoops == ISOInit /\ [][ISONext]_vars


-----------------------------------------------------------------------------
(* The JWKS URL for every discovery document and cluster configuration. *)

JWInit == VMIdle /\ WLIdle /\ RQIdle /\ STIdle /\ RNIdle /\ PXIdle /\ ISOIdle /\ JWDraw /\ RPIdle /\ CSIdle /\ VDIdle

JWNext == NewRemoteKeySet

SpecJWKS == JWInit /\ [][JWNext]_vars


-----------------------------------------------------------------------------
(* One request served twice by the TokenReview handler. *)

\* The handler as main builds it, with verifier, configuration and Store,
\* and any request.
RPDraw == RQDraw /\ ~hVerifierNil /\ ~hConfigNil /\ ~hStoreNil

RPInit == VMIdle /\ WLIdle /\ RPDraw /\ RNIdle /\ PXIdle /\ ISOIdle /\ JWIdle /\ RPStart /\ CSIdle /\ VDIdle

RPNext ==
    \/ ServeStart
    \/ AuthHeaderCheck
    \/ \E c \in Clusters, o \in {"ok", "creating verifier", "verifying token"} :
          FixedCallerVerify(c, o)
    \/ CallerAuthorize
    \/ ParseBody
    \/ \E c \in Clusters, o \in {"ok", "creating verifier", "verifying token"} :
          FixedDetectVerify(c, o)
    \/ \E inCluster \in BOOLEAN, err \in ForwardErrors : FixedForward(inCluster, err, NoResult)
    \/ \E inCluster \in BOOLEAN, r \in RemoteResults : FixedForward(inCluster, "", r)
    \/ Respond
    \/ RepeatRequest

SpecRepeat == RPInit /\ [][RPNext]_vars


-----------------------------------------------------------------------------
(* Two renewers calling Store.Set concurrently. *)

CSInit == VMIdle /\ WLIdle /\ RQIdle /\ STIdle /\ RNIdle /\ PXIdle /\ ISOIdle /\ JWIdle /\ RPIdle /\ CSDraw /\ VDIdle

CSNext ==
    \/ \E c \in LoopClusters : PairSetCall(c)
    \/ \E c \in LoopClusters : PairSetSwap(c)
    \/ \E c \in LoopClusters : PairSaveSnapshot(c)
    \/ \E c \in LoopClusters, outcome \in {"updated", "created", "create failed", "update failed"} :
          PairSaveUpdate(c, outcome)

SpecPairSet == CSInit /\ [][CSNext]_vars


-----------------------------------------------------------------------------
(* Requests to /validate, one at a time. *)

VDInit == VMIdle /\ WLIdle /\ RQIdle /\ STIdle /\ RNIdle /\ PXIdle /\ ISOIdle /\ JWIdle /\ RPIdle /\ CSIdle /\ VDStart

VDNext ==
    \/ \E body \in ValidateBodies : ValidateArrive(body)
    \/ ValidateDecode
    \/ \E c \in ClusterNames : \E res \in VerifyResults(c) : ValidateVerify(res)

SpecValidate == VDInit /\ [][VDNext]_vars

-----------------------------------------------------------------------------
(* Claims about the VerifierManager (checked under SpecVM).                *)

\* C1: between two InvalidateVerifier(C) points at most one verifier is built
\* and installed for C, and a construction is in progress only while the
\* cache holds no verifier for that cluster: a caller that missed under the
\* read lock and finds an instance under the write lock reuses it.
C1_AtMostOneVerifier ==
    /\ \A c \in Clusters : built[c] <= 1
    /\ \A t \in VMThreads :
         vpc[t] \in {"client", "discovery", "install"} => verifiers[vcluster[t]] = 0
    /\ \A t \in VMThreads :
         (vpath[t] = "recheck" /\ vpc[t] = "verify") => vlocal[t] # 0

\* Two callers missed under the read lock; one built the verifier and the
\* other reused it after its second lookup.
C1_Witness ==
    \E t, u \in VMThreads :
        /\ t # u
        /\ vcluster[t] = vcluster[u]
        /\ vpath[t] = "built" /\ vpath[u] = "recheck"
        /\ vlocal[t] = vlocal[u] /\ vlocal[t] # 0
        /\ built[vcluster[t]] = 1

\* C9: a Verify call that starts after InvalidateVerifier(C) returned never
\* runs on an instance that was removed before it started, and every call
\* runs verification on exactly the instance getOrCreateVerifier gave it,
\* also when that instance has been invalidated in the meantime.
C9_InvalidatePointInTime ==
    \A t \in VMThreads :
        /\ (vpc[t] = "verify") => (vlocal[t] # 0 /\ vlocal[t] \notin removedAtStart[t])
        /\ (vpc[t] = "done" /\ vresult[t] \in {"ok", "verifying token"}) =>
               (vused[t] = vlocal[t] /\ vused[t] # 0 /\ vused[t] \notin removedAtStart[t])

\* One call completed on an instance that was invalidated while the call was
\* in flight; a call started after the invalidation built a new instance.
C9_Witness ==
    \E t, u \in VMThreads :
        /\ t # u
        /\ vcluster[t] = vcluster[u]
        /\ vpc[t] = "done" /\ vresult[t] = "ok" /\ vused[t] \in removed
        /\ vpc[u] = "done" /\ vresult[u] = "ok" /\ vpath[u] = "built"
        /\ vused[t] \in removedAtStart[u]
        /\ vused[u] \notin removed

-----------------------------------------------------------------------------
(* Claims about the authorized_clients matcher (checked under SpecWL).     *)

\* The positions of the separators of an entry.
C6_SlashAt(e) == {i \in 1..Len(e) : e[i] = Slash}

\* The entry consists of exactly three segments separated by "/", and each
\* segment is "*" or the corresponding value.
C6_EntryMatches(e, x, y, z) ==
    \E i, j \in 1..Len(e) :
        /\ i < j
        /\ C6_SlashAt(e) = {i, j}
        /\ SubSeq(e, 1, i - 1) \in {Wildcard, x}
        /\ SubSeq(e, i + 1, j - 1) \in {Wildcard, y}
        /\ SubSeq(e, j + 1, Len(e)) \in {Wildcard, z}

C6_FewerThanThree(e) == Cardinality(C6_SlashAt(e)) < 2

C6_NotFewerThanThree(e) == ~C6_FewerThanThree(e)

\* C6: IsAuthorizedClient(cluster, namespace, serviceaccount) is true iff some
\* whitelist entry has three slash-separated segments each of which is "*"
\* or the corresponding value (names hold no "/"); an entry with fewer than
\* three segments neither matches nor keeps another entry from matching, and
\* the empty whitelist matches nothing.
C6_WhitelistMatch ==
    wlResult # "none" =>
      /\ (wlResult = "true") <=>
           (\E k \in 1..Len(wlEntries) :
               C6_EntryMatches(wlEntries[k], wlTriple[1], wlTriple[2], wlTriple[3]))
      /\ (wlResult = "true") <=>
           IsAuthorizedClient(SelectSeq(wlEntries, C6_NotFewerThanThree),
                              wlTriple[1], wlTriple[2], wlTriple[3])
      /\ (\A k \in 1..Len(wlEntries) : C6_FewerThanThree(wlEntries[k])) => wlResult = "false"

\* A match through a wildcard and a literal segment of the second entry, the
\* first entry having only two segments.
C6_Witness ==
    /\ wlResult = "true"
    /\ Len(wlEntries) = 2
    /\ C6_FewerThanThree(wlEntries[1])
    /\ wlEntries[2] = <<"*", Slash, "a", Slash, "*">>
    /\ wlTriple = <<<<"b">>, <<"a">>, <<"b">>>>

-----------------------------------------------------------------------------
(* Properties of the TokenReview handler, checked under SpecReq.           *)

\* The steps the current request has gone through.
Logged(s) == \E i \in 1..Len(hlog) : hlog[i] = s

VerifyFailures == {"creating verifier", "verifying token"}

\* C2: cluster detection returns cluster C only if Verify(C, token) succeeded
\* for the token of the body; it ends with "no cluster matches" if and only
\* if Verify failed for every configured cluster; and a failure for one
\* cluster, of whatever kind, leaves every cluster not yet visited still to
\* be visited.
C2_DetectCluster ==
    /\ detResult = "found" =>
         /\ detected \in Clusters
         /\ detTried[detected] = "ok"
         /\ detected \in TokenValidFor(rqBody.token)
    /\ detResult = "nomatch" <=> (\A c \in Clusters : detTried[c] \in VerifyFailures)
    /\ hpc = "detect" =>
         /\ hremaining = {c \in Clusters : detTried[c] = "none"}
         /\ hremaining # {}
         /\ detResult = "none"

\* Detection returned a cluster after Verify had failed for another one.
C2_Witness ==
    /\ detResult = "found"
    /\ \E c \in Clusters : detTried[c] \in VerifyFailures

\* C3: whenever the forwarded TokenReview came back authenticated, the
\* response carries under "authentication.kubernetes.io/cluster-name" exactly
\* the one-element list of the detected cluster, whatever the remote cluster
\* returned under that key and whether or not it returned an extra map.
C3_ClusterNameExtra ==
    (resp.via = "forwarded" /\ hresult.authenticated) =>
        /\ ~resp.extra.isNil
        /\ ExtraKeyClusterName \in DOMAIN resp.extra.m
        /\ resp.extra.m[ExtraKeyClusterName] = <<detected>>
        /\ resp.authenticated

\* The remote cluster sent a value of its own under the key and the
\* response carries the detected cluster instead.
C3_Witness ==
    /\ resp.via = "forwarded"
    /\ hresult.authenticated
    /\ ~hresult.extra.isNil
    /\ ExtraKeyClusterName \in DOMAIN hresult.extra.m
    /\ hresult.extra.m[ExtraKeyClusterName] # <<detected>>
    /\ resp.extra.m[ExtraKeyClusterName] = <<detected>>

\* The caller was rejected by caller authentication.
CallerRejected == Logged("CallerAuth") /\ ~Logged("Parse")

\* C4: the status of every response is 401 or 403 only when caller
\* authentication rejects the caller, 400 only when the body cannot be
\* decoded or spec.token is empty, and 200 for every other outcome; no other
\* status code is produced.
C4_StatusCodes ==
    (hpc = "done" /\ resp.via # "none") =>
        /\ resp.code \in {StatusOK, StatusBadRequest, StatusUnauthorized, StatusForbidden}
        /\ resp.code \in {StatusUnauthorized, StatusForbidden} => CallerRejected
        /\ resp.code = StatusBadRequest => (~rqBody.decodable \/ rqBody.token = "")
        /\ (~CallerRejected /\ rqBody.decodable /\ rqBody.token # "") =>
             /\ resp.code = StatusOK
             /\ (resp.via = "writeUnauthenticated" =>
                   ~resp.authenticated /\ resp.error # "")

\* Caller authentication is enabled, the request carries a bearer token,
\* the handler has no verifier, and the response has status 500.
C4_Witness ==
    /\ hpc = "done"
    /\ AuthEnabled
    /\ hVerifierNil
    /\ rqAuth.scheme = "Bearer"
    /\ rqAuth.token # ""
    /\ resp.code = StatusInternalServerError

\* C5: on every path through the handler the response body is a TokenReview
\* object with apiVersion "authentication.k8s.io/v1" and kind "TokenReview".
C5_TypeMeta ==
    (hpc = "done" /\ resp.via # "none") =>
        /\ resp.apiVersion = "authentication.k8s.io/v1"
        /\ resp.kind = "TokenReview"

\* A forwarded result, which the client returned without TypeMeta, was
\* written as the response.
C5_Witness ==
    /\ hpc = "done"
    /\ resp.via = "forwarded"
    /\ resp.kind = "TokenReview"

\* The caller passed caller authentication: a cluster verified its token,
\* the token carries an identity and the whitelist admits it.
CallerPassed ==
    /\ callerCluster \in Clusters
    /\ callerTried[callerCluster] = "ok"
    /\ callerClaims.namespace # ""
    /\ callerClaims.serviceAccount # ""
    /\ IsAuthorizedClient(hAuthorized, Str(callerCluster), Str(callerClaims.namespace),
                          Str(callerClaims.serviceAccount))

\* C7: the caller-authentication step runs if and only if authorized_clients
\* is non-empty: with an empty list no request is rejected with 401 or 403
\* and every request goes on to body parsing; with a non-empty list no
\* request reaches body parsing without having passed caller authentication.
C7_CallerAuthIffWhitelist ==
    /\ hpc # "start" => (Logged("CallerAuth") <=> Len(hAuthorized) > 0)
    /\ (Len(hAuthorized) = 0 /\ hpc = "done" /\ resp.via # "none") =>
         /\ resp.code \notin {StatusUnauthorized, StatusForbidden}
         /\ Logged("Parse")
    /\ (Len(hAuthorized) = 0 /\ hpc \notin {"start", "done"}) =>
         hpc \in {"parse", "detect", "forward", "annotate"}
    /\ (Len(hAuthorized) > 0 /\ (Logged("Parse") \/ hpc = "parse")) => CallerPassed

\* A request without Authorization header was parsed, under a configuration
\* that is present and whose list is empty.
C7_Witness ==
    /\ ~hConfigNil
    /\ Len(hAuthorized) = 0
    /\ rqAuth.scheme = ""
    /\ hpc = "done"
    /\ Logged("Parse")

\* The request ended in caller authentication: the token of the body was
\* neither verified nor forwarded.
EndedInCallerAuth ==
    /\ ~Logged("Parse")
    /\ ~Logged("Detect")
    /\ ~Logged("Forward")
    /\ \A c \in Clusters : detTried[c] = "none"
    /\ fwdConfig = NoRestConfig

\* C8: with caller authentication enabled, a request whose Authorization
\* header is absent, not Bearer, carries an empty token, carries a token no
\* configured cluster verifies, or carries a verified token without identity
\* gets 401; a verified caller the whitelist does not admit gets 403; and in
\* all these cases the request ends there.
C8_CallerAuthFailures ==
    (AuthEnabled /\ hpc = "done" /\ resp.via # "none") =>
        /\ ( \/ rqAuth.scheme # "Bearer"
             \/ rqAuth.token = ""
             \/ (\A c \in Clusters : callerTried[c] # "ok")
             \/ (callerCluster \in Clusters
                   /\ (callerClaims.namespace = "" \/ callerClaims.serviceAccount = "")) )
             => (resp.code = StatusUnauthorized /\ EndedInCallerAuth)
        /\ ( /\ callerCluster \in Clusters
             /\ callerClaims.namespace # ""
             /\ callerClaims.serviceAccount # ""
             /\ ~IsAuthorizedClient(hAuthorized, Str(callerCluster),
                                    Str(callerClaims.namespace),
                                    Str(callerClaims.serviceAccount)) )
             => (resp.code = StatusForbidden /\ EndedInCallerAuth)

\* A bearer token that no cluster verified, because the handler has no
\* verifier, was answered with a status other than 401.
C8_Witness ==
    /\ AuthEnabled
    /\ hpc = "done"
    /\ rqAuth.scheme = "Bearer"
    /\ rqAuth.token # ""
    /\ \A c \in Clusters : callerTried[c] # "ok"
    /\ resp.via = "writeError"
    /\ resp.code # StatusUnauthorized
    /\ EndedInCallerAuth

-----------------------------------------------------------------------------
(* Properties of the credential Store, checked under SpecStore.            *)

\* Thread t's last call was a Get and it has returned.
GetReturned(t) == stpc[t] = "idle" /\ stcall[t].op = "Get"

\* C10: a Get(C) that starts after Set(C, creds) has returned, with or
\* without a persistence error, returns creds unless C's entry was written
\* again; and Get never returns a value that was never installed for C.
C10_SetThenGet ==
    \A t \in STThreads :
      GetReturned(t) =>
        /\ (need[t].valid /\ readStamp[t] = need[t].stamp) => stret[t] = need[t].value
        /\ stret[t].present => stret[t] \in installed[stcall[t].cluster]

\* A Get started after a Set whose persistence failed had returned, and
\* returned the credentials of that Set.
C10_Witness ==
    \E t \in STThreads :
      /\ GetReturned(t)
      /\ need[t].valid
      /\ need[t].failed
      /\ readStamp[t] = need[t].stamp
      /\ stret[t] = need[t].value
      /\ stret[t].present

\* Thread t's last call was LoadBootstrapFromFiles for an entry that existed
\* when it was called.
BootstrapOnExisting(t) == stcall[t].op = "LoadBootstrapFromFiles" /\ lbHad[t]

\* C11: if the Store holds credentials for C when LoadBootstrapFromFiles(C)
\* is called, the call never enters the write path (so it changes neither
\* C's entry nor any other) and returns no error, whatever the files
\* contain and whatever writes to C's entry run alongside.
C11_BootstrapKeepsExisting ==
    \A t \in STThreads :
      BootstrapOnExisting(t) =>
        /\ stpc[t] \in {"lb_rlock", "lb_read", "idle"}
        /\ ststamp[t] = 0
        /\ sterr[t] = ""
        /\ stWriter # t

\* LoadBootstrapFromFiles returned for an existing entry that another
\* goroutine's Set has overwritten in the meantime or is still writing.
C11_Witness ==
    \E t \in STThreads, u \in STThreads :
      /\ t # u
      /\ BootstrapOnExisting(t)
      /\ stpc[t] = "idle"
      /\ stcall[u].op = "Set"
      /\ stcall[u].cluster = stcall[t].cluster
      /\ stpc[u] \in {"w_end", "set_after", "save_update"}
      /\ stret[t].present

\* Set by t returns success in this step, having persisted, and no other
\* write to the entry came between its own write and its copy of the map.
C12_SetSucceeds(t) ==
    /\ stcall[t].op = "Set"
    /\ stpc[t] = "save_update"
    /\ stpc'[t] = "idle"
    /\ sterr'[t] = ""
    /\ snapStamp[t] = ststamp[t]

\* C12: when Set(C, v) returns success on a Store with persistence, the
\* Secret holds v's token under "C-token" and v's CA under "C-ca.crt", and a
\* Store constructed from that Secret holds (C, v).
C12_SetPersistsRoundTrip ==
    [][\A t \in STThreads :
         C12_SetSucceeds(t) =>
           LET c == stcall[t].cluster
               v == stcall[t].value
               d == secret'.data
           IN  /\ secret'.exists
               /\ <<c, "-token">> \in DOMAIN d
               /\ <<c, "-ca.crt">> \in DOMAIN d
               /\ d[<<c, "-token">>] = v.token
               /\ d[<<c, "-ca.crt">>] = v.ca
               /\ LoadedFromSecret(d)[c] = v]_vars

\* A Set has returned success and the Secret it wrote loads back to its
\* credentials.
C12_Witness ==
    \E t \in STThreads :
      /\ stcall[t].op = "Set"
      /\ stpc[t] = "idle"
      /\ sterr[t] = ""
      /\ ~stClientNil
      /\ snapStamp[t] = ststamp[t]
      /\ secret.exists
      /\ secret.data = stsnap[t]
      /\ LoadedFromSecret(secret.data)[stcall[t].cluster] = stcall[t].value

\* C18: every step of Set(C, v) leaves the entries of the other clusters as
\* they are, and when Set returns a persistence error the entry of C is v
\* (unless another write to C came after Set's own or is under way): the
\* update is not rolled back.
C18_PersistenceErrorKeepsUpdate ==
    [][\A t \in STThreads :
         (stcall'[t].op = "Set" /\ stpc'[t] # stpc[t]) =>
           LET c == stcall'[t].cluster IN
           /\ \A d \in Clusters \ {c} : credentials'[d] = credentials[d]
           /\ ( /\ stpc'[t] = "idle"
                /\ sterr'[t] # ""
                /\ writes'[c] = ststamp'[t]
                /\ stWriter' = NoThread ) =>
                credentials'[c] = stcall'[t].value]_vars

\* Set returned a persistence error, its credentials are the entry, and the
\* entry of another cluster is still there.
C18_Witness ==
    \E t \in STThreads :
      /\ stcall[t].op = "Set"
      /\ stpc[t] = "idle"
      /\ sterr[t] # ""
      /\ writes[stcall[t].cluster] = ststamp[t]
      /\ stWriter = NoThread
      /\ credentials[stcall[t].cluster] = stcall[t].value
      /\ \E d \in Clusters \ {stcall[t].cluster} : credentials[d].present

\* C17: a step of cluster detection changes no credentials in the Store (nor
\* the Secret) and forwards no TokenReview; beyond the handler's own
\* bookkeeping its only effect is on the verifier cache, where it can add
\* verifiers but neither replaces nor removes one.
C17_DetectionIsLocal ==
    [][hpc = "detect" =>
         /\ credentials' = credentials
         /\ secret' = secret
         /\ fwdConfig' = fwdConfig
         /\ fwdConfig = NoRestConfig
         /\ hresult' = hresult
         /\ UNCHANGED vmRest
         /\ \A c \in Clusters : verifiers[c] # 0 => verifiers'[c] = verifiers[c]]_vars

\* Detection has ended after building a verifier, with credentials in the
\* Store, and nothing has been forwarded.
C17_Witness ==
    /\ detResult # "none"
    /\ \E c \in Clusters : detTried[c] # "none" /\ verifiers[c] # 0 /\ built[c] > 0
    /\ \E c \in Clusters : credentials[c].present
    /\ ~hStoreNil
    /\ fwdConfig = NoRestConfig

-----------------------------------------------------------------------------
(* Properties of the Renewer, checked under SpecRenew.                     *)

\* The calls of the kind e the tick has made.
TickCalls(e) == Cardinality({i \in DOMAIN rnLog : rnLog[i] = e})

TickEnded == rnpc \in {"idle", "stopped"} /\ rnRet.returned

FirstRequestFailed == rnErr \in {"creating k8s client", "token request"}

\* What the bootstrap files hold.
FileContents == Creds(rnFiles.token, rnFiles.ca)

\* The step renew takes after a first request that failed at the client or
\* at the TokenRequest.
FallbackTaken == rnpc = "fallback" /\ rnpc' # "fallback" /\ FirstRequestFailed

\* The fallback step without bootstrap files: no retry, the error is
\* returned.  No tick makes more than two requests, and a second request is
\* made only after a fallback that loaded the files.
NoRetryWithoutBootstrap ==
    /\ [][(FallbackTaken /\ ~BootstrapConfigured) =>
             /\ rnpc' = "idle"
             /\ rnRet' = ReturnError("requesting token", rnErr)
             /\ credentials' = credentials]_vars
    /\ [](/\ TickCalls("Attempt") <= 2
          /\ rnAttempt = TickCalls("Attempt")
          /\ rnpc = "request" => rnAttempt <= 1
          /\ rnpc = "fallback" => rnAttempt = 1
          /\ rnAttempt = 2 => TickCalls("LoadFromFiles") >= 1)

\* C15, with the precondition it needs: when the first request fails at the
\* client or at the TokenRequest, bootstrap files are configured and they can
\* be read, the Store entry becomes the contents of the files and the
\* request is made once more with them; when they cannot be read the entry
\* is left as it is, no retry is made and the error is returned.  With no
\* bootstrap configured no retry is made and the error is returned.  A tick
\* never makes more than two requests.
C15_FallbackRetriesOnce ==
    /\ [][(FallbackTaken /\ BootstrapConfigured
             /\ rnFiles.readable) =>
             /\ credentials' = MapAssign(credentials, RenewCluster, FileContents)
             /\ rnCreds' = FileContents
             /\ rnAttempt' = 1
             /\ rnpc' = "request"]_vars
    /\ [][(FallbackTaken /\ BootstrapConfigured
             /\ ~rnFiles.readable) =>
             /\ credentials' = credentials
             /\ rnpc' = "idle"
             /\ rnRet'.returned /\ rnRet'.cause = rnErr]_vars
    /\ NoRetryWithoutBootstrap

\* C15 as stated: whenever the first request fails at the client or at the
\* TokenRequest and bootstrap files are configured, the entry is overwritten
\* with their contents and one retry is made.
C15_AsStated ==
    /\ [][(FallbackTaken /\ BootstrapConfigured) =>
             /\ credentials' = MapAssign(credentials, RenewCluster, FileContents)
             /\ rnCreds' = FileContents
             /\ rnpc' = "request"]_vars
    /\ NoRetryWithoutBootstrap

\* The TokenRequest with the stored credentials failed, the entry was
\* overwritten with the bootstrap files and the second request was made with
\* them.
C15_Witness ==
    /\ rnErr = "token request"
    /\ BootstrapConfigured
    /\ rnAttempt = 2
    /\ rnStart[RenewCluster] = StaleCreds
    /\ rnCreds = Creds("boot-token", "boot-ca")
    /\ TickCalls("LoadFromFiles") = 1
    /\ TickCalls("TokenRequest") = 2

\* Both requests of the tick failed.
BothRequestsFailed == TickEnded /\ rnErr # "" /\ rnRetryErr # ""

\* C16: when the first request fails and the retry with the bootstrap
\* credentials fails too, the error the tick returns is the error of the
\* first request, not the error of the retry.
C16_ReturnsOriginalError ==
    BothRequestsFailed => rnRet.cause = rnErr /\ rnRet # ReturnNil

\* Both requests failed, in different ways, and the tick returned the error
\* of the retry.
C16_Witness ==
    /\ BothRequestsFailed
    /\ rnErr = "creating k8s client"
    /\ rnRetryErr = "token request"
    /\ rnRet = ReturnError("requesting token with bootstrap credentials", rnRetryErr)

\* The token the first TokenRequest of the tick returned.
FirstIssuedToken == IssuedToken(rnIssued - TickCalls("Set") + 1)

\* C19: when the persistence of a newly issued token fails during a tick,
\* that token is the in-memory credential of the cluster when the tick ends.
C19_NewTokenSurvivesPersistenceError ==
    TickEnded =>
        /\ rnErr = "storing credentials" =>
              credentials[RenewCluster].token = FirstIssuedToken
        /\ rnRetryErr = "storing credentials" =>
              credentials[RenewCluster].token = IssuedToken(rnIssued)

\* The persistence of the first new token failed, the fallback loaded the
\* bootstrap files over it and the retry failed: the tick ends with the
\* bootstrap credentials in memory.
C19_Witness ==
    /\ TickEnded
    /\ rnErr = "storing credentials"
    /\ rnRetryErr = "token request"
    /\ rnIssued = 1
    /\ Creds(IssuedToken(1), rnStart[RenewCluster].ca) \in installed[RenewCluster]
    /\ credentials[RenewCluster] = Creds("boot-token", "boot-ca")
    /\ TickCalls("InvalidateVerifier") = 0

\* C20: every entry of the Store has a non-empty token and a non-empty CA
\* certificate, whatever installed it.
C20_EntriesNonEmpty ==
    \A c \in Clusters :
        credentials[c].present => credentials[c].token # "" /\ credentials[c].ca # ""

\* A tick found the Store without an entry for the cluster and seeded it
\* from a bootstrap token file that is empty.
C20_Witness ==
    /\ rnTicks > 0
    /\ ~rnStart[RenewCluster].present
    /\ Len(rnLog) > 0
    /\ rnLog[1] = "LoadFromFiles"
    /\ credentials[RenewCluster] = Creds("", "boot-ca")

-----------------------------------------------------------------------------
(* Further properties of the Renewer, checked under SpecRenew.             *)

\* The last call the tick has made.
LastCall(log) == IF Len(log) = 0 THEN "" ELSE log[Len(log)]

\* C21, with the second operation it needs: every change the Renewer makes
\* to the in-memory credentials is made by Store.Set, which installs the
\* newly issued token, or by Store.LoadFromFiles, which installs the contents
\* of the bootstrap files and makes no persistence attempt; nothing else
\* changes the map, and a newly issued token is installed by Store.Set only.
C21_RenewerWritesThroughStore ==
    [][credentials' # credentials =>
         \/ /\ rnLog' = Append(rnLog, "Set")
            /\ credentials' = MapAssign(credentials, RenewCluster, rnNew)
            /\ rnNew.token = IssuedToken(rnIssued)
         \/ /\ LastCall(rnLog') = "LoadFromFiles"
            /\ rnpc \in {"idle", "fallback"}
            /\ rnFiles.readable
            /\ credentials' =
                  MapAssign(credentials, RenewCluster, Creds(rnFiles.token, rnFiles.ca))
            /\ secret' = secret]_vars

\* C21 as stated: every change the Renewer makes to the in-memory
\* credentials is made by Store.Set.
C21_AsStated ==
    [][credentials' # credentials => rnLog' = Append(rnLog, "Set")]_vars

\* In one tick the Renewer has changed the entry by Store.Set, by
\* Store.LoadFromFiles in the fallback and by Store.Set again.
C21_Witness ==
    /\ rnLog = <<"Attempt", "TokenRequest", "Set", "LoadFromFiles",
                 "Attempt", "TokenRequest", "Set">>
    /\ credentials[RenewCluster] = Creds(IssuedToken(2), "boot-ca")
    /\ rnStart[RenewCluster] = StaleCreds
    /\ Creds("boot-token", "boot-ca") \in installed[RenewCluster]

-----------------------------------------------------------------------------
(* Further properties of the VerifierManager, checked under SpecVM.        *)

\* Goroutine t is constructing a verifier: it is between the second lookup
\* and the installation (client, discovery fetch, NewVerifier).
Constructing(t) == vmWriter = t /\ vpc[t] \in {"client", "discovery", "install"}

\* C22: while a verifier of one cluster is being constructed, a Verify call
\* for another cluster is not held up: it can take the read lock for its
\* lookup and, when it has to construct, the write lock.
C22_ConstructionExclusivePerCluster ==
    \A t \in VMThreads, u \in VMThreads :
        (Constructing(t) /\ vcluster[u] # vcluster[t]) =>
            /\ vpc[u] = "rlock" => CanRLock
            /\ vpc[u] = "lock" => vmWriter = NoThread

\* The discovery document of the remote cluster is being fetched while a
\* Verify for the local cluster, whose verifier is cached, waits for the read
\* lock.
C22_Witness ==
    /\ Constructing("v1")
    /\ vpc["v1"] = "discovery"
    /\ vcluster["v1"] = "b"
    /\ vcluster["v2"] = "a"
    /\ vpc["v2"] = "rlock"
    /\ verifiers["a"] # 0
    /\ ~CanRLock

-----------------------------------------------------------------------------
(* Further properties of the TokenReview handler, checked under SpecReq.   *)

\* The words of the messages that speak of the configured clusters: the one
\* ServeHTTP writes when detection fails, the error detectCluster returns
\* and the one authenticateCaller returns.
Words(msg) ==
    CASE msg = "token not valid for any configured cluster" ->
             <<"token", "not", "valid", "for", "any", "configured", "cluster">>
      [] msg = "token signature does not match any configured cluster" ->
             <<"token", "signature", "does", "not", "match", "any", "configured",
               "cluster">>
      [] msg = "caller token not valid for any configured cluster" ->
             <<"caller", "token", "not", "valid", "for", "any", "configured",
               "cluster">>
      [] OTHER -> <<msg>>

\* strings.Contains on the words.
Contains(text, phrase) ==
    \E i \in 0..(Len(text) - Len(phrase)) :
        \A j \in 1..Len(phrase) : text[i + j] = phrase[j]

NoMatchPhrase == <<"does", "not", "match", "any", "configured", "cluster">>

\* C23: when no configured cluster verifies the token of the request body,
\* the response is 200 with authenticated=false and an error that contains
\* "does not match any configured cluster".
C23_NoMatchResponse ==
    (hpc = "done" /\ detResult = "nomatch") =>
        /\ resp.code = StatusOK
        /\ ~resp.authenticated
        /\ Contains(Words(resp.error), NoMatchPhrase)

\* Every cluster was tried for the token of the body, none verified it, and
\* the response carries ServeHTTP's own message.
C23_Witness ==
    /\ hpc = "done"
    /\ detResult = "nomatch"
    /\ \A c \in Clusters : detTried[c] \notin {"none", "ok"}
    /\ resp.code = StatusOK
    /\ ~resp.authenticated
    /\ resp.error = "token not valid for any configured cluster"
    /\ Contains(Words("token signature does not match any configured cluster"),
                NoMatchPhrase)

-----------------------------------------------------------------------------
(* Termination of the renewal loop, checked under SpecRenewLive.           *)

-----------------------------------------------------------------------------
(* Further properties of the credential Store, checked under SpecStore.    *)

\* Goroutine t's call of LoadFromFiles returns at this step with an error.
LoadFromFilesFails(t) ==
    /\ stpc[t] = "idle"
    /\ stOps' = stOps + 1
    /\ stcall'[t].op = "LoadFromFiles"
    /\ sterr'[t] # ""

\* Goroutine t's call of LoadFromFiles completes its write at this step.
LoadFromFilesWrites(t) ==
    /\ stpc[t] = "w_end"
    /\ stpc'[t] = "idle"
    /\ stcall[t].op = "LoadFromFiles"

\* C26: LoadFromFiles(C, token_path, ca_path) makes the entry of C the
\* contents of the two files whether or not there was an entry, and leaves
\* the other entries alone; when the token file or the CA file cannot be read
\* it returns an error and the map and the Secret stay exactly as they were.
\* No entry ever holds the token of the files without their CA or the CA
\* without the token.
C26_LoadFromFilesAllOrNothing ==
    /\ [][\A t \in STThreads :
             /\ LoadFromFilesFails(t) =>
                   /\ credentials' = credentials
                   /\ secret' = secret
                   /\ installed' = installed
                   /\ stpc'[t] = "idle"
             /\ LoadFromFilesWrites(t) =>
                   /\ credentials'[stcall[t].cluster] = FileCreds
                   /\ \A d \in Clusters \ {stcall[t].cluster} :
                         credentials'[d] = credentials[d]
                   /\ sterr'[t] = ""]_vars
    /\ [](\A c \in Clusters :
             /\ credentials[c] # Creds(FileCreds.token, "")
             /\ credentials[c] # Creds("", FileCreds.ca))

\* LoadFromFiles has replaced an entry that Set had installed, and a second
\* call that could not read the CA file has returned its error with the
\* entry as it was.
C26_Witness ==
    \E t \in STThreads, u \in STThreads :
        /\ t # u
        /\ stcall[t].op = "LoadFromFiles" /\ stpc[t] = "idle" /\ sterr[t] = ""
        /\ stcall[u].op = "LoadFromFiles" /\ stpc[u] = "idle"
        /\ sterr[u] = "reading CA file"
        /\ credentials["b"] = FileCreds
        /\ \E v \in SetValues : v \in installed["b"]


-----------------------------------------------------------------------------
(* Properties of kube-auth-proxy. *)

\* The request as the client sent it carries a non-empty Bearer token.
CarriesBearerToken ==
    /\ HeaderAuthorization \in DOMAIN pxIn
    /\ Len(pxIn[HeaderAuthorization]) > Len(BearerPrefix)
    /\ SubSeq(pxIn[HeaderAuthorization], 1, Len(BearerPrefix)) = BearerPrefix

\* The reviewer was called and returned no error and authenticated=true.
ReviewedAuthenticated ==
    /\ pxResult.called
    /\ ~pxResult.err
    /\ pxResult.authenticated

\* C27: both proxy handlers fail closed.  Once a request is answered, the
\* auth-subrequest handler has answered 200, and the reverse proxy has
\* contacted the upstream, only if the request carried a non-empty Bearer
\* token and the reviewer returned without error with authenticated=true;
\* in every other case the answer is 401 and the upstream was not
\* contacted.  While a request waits for the reviewer nothing has been
\* sent to the upstream either.
C27_ProxyFailsClosed ==
    /\ (pxpc = "review") => (~pxUpstream.contacted /\ pxCode = 0)
    /\ (pxpc = "done") =>
          /\ (pxKind = "auth") =>
                ((pxCode = StatusOK) <=> (CarriesBearerToken /\ ReviewedAuthenticated))
          /\ (pxKind = "proxy") =>
                (pxUpstream.contacted <=> (CarriesBearerToken /\ ReviewedAuthenticated))
          /\ ~(CarriesBearerToken /\ ReviewedAuthenticated) =>
                (pxCode = StatusUnauthorized /\ ~pxUpstream.contacted)
          /\ (pxKind = "auth") => ~pxUpstream.contacted

\* Each of the refusals of C27 has happened in both modes, and so has an
\* accepted request.
C27_Witness ==
    /\ pxpc = "done"
    /\ pxKind = "proxy"
    /\ CarriesBearerToken
    /\ pxResult.called
    /\ ~pxResult.err
    /\ ~pxResult.authenticated
    /\ pxResult.username # <<>>
    /\ pxCode = StatusUnauthorized
    /\ ~pxUpstream.contacted

\* C28: every request the reverse proxy forwards to the upstream has no
\* Authorization header and has X-Forwarded-User equal to the username of
\* the TokenReview result.
C28_ForwardedRequestHeaders ==
    pxUpstream.contacted =>
        /\ HeaderAuthorization \notin DOMAIN pxUpstream.header
        /\ HeaderForwardedUser \in DOMAIN pxUpstream.header
        /\ pxUpstream.header[HeaderForwardedUser] = pxResult.username

\* A request whose client sent its own X-Forwarded-User was forwarded.
C28_Witness ==
    /\ pxUpstream.contacted
    /\ HeaderForwardedUser \in DOMAIN pxIn
    /\ HeaderAuthorization \in DOMAIN pxIn
    /\ pxResult.username = <<"alice">>
    /\ pxUpstream.header[HeaderForwardedUser] = <<"alice">>

-----------------------------------------------------------------------------
(* The order of the steps of ServeHTTP. *)

StepRank(s) ==
    CASE s = "CallerAuth" -> 1
      [] s = "Parse" -> 2
      [] s = "Detect" -> 3
      [] s = "Forward" -> 4
      [] s = "Respond" -> 5

StepsOrdered ==
    /\ \A i, j \in 1..Len(hlog) : i < j => StepRank(hlog[i]) < StepRank(hlog[j])
    /\ Logged("CallerAuth") <=> (AuthEnabled /\ hpc # "start")
    /\ Logged("Detect") =>
          (Logged("Parse") /\ rqBody.decodable /\ rqBody.token # "")
    /\ (\E c \in Clusters : detTried[c] # "none") => Logged("Detect")
    /\ Logged("Forward") =>
          (Logged("Detect") /\ detResult = "found" /\ detTried[detected] = "ok")
    /\ fwdConfig # NoRestConfig => Logged("Forward")
    /\ Logged("Respond") <=> (hpc = "done")
    /\ (resp # NoResp) <=> (hpc = "done")

\* C29: each request moves through CallerAuth (when enabled), Parse, Detect,
\* Forward, Respond in that order without going back.  The steps taken for
\* a request are in that order and none is taken twice; a TokenReview is
\* forwarded only after detection succeeded for the same request; detection
\* runs only after the body was parsed with a non-empty token; and exactly
\* one response is written: it is there when the handler is done and, once
\* written, it is not written again for that request.
C29_StepsInOrder ==
    /\ []StepsOrdered
    /\ [][(resp # NoResp /\ resp' # resp) => (hpc = "done" /\ hpc' = "start")]_vars
    /\ [][(hpc = hpc' /\ hpc # "done") => hlog' = hlog]_vars

\* A request went through all five steps.
C29_Witness ==
    /\ hpc = "done"
    /\ hlog = <<"CallerAuth", "Parse", "Detect", "Forward", "Respond">>
    /\ resp.via = "forwarded"

-----------------------------------------------------------------------------
(* The verifier cache and failed constructions. *)

\* The call of t has just returned the error of a failed construction.
ConstructionFails(t) ==
    /\ vpc[t] \in {"client", "discovery"}
    /\ vpc'[t] = "done"

\* The entry of c is written by the step that ends a successful
\* construction for c, and by nothing else.
InstalledBy(t, c) ==
    /\ vpc[t] = "install"
    /\ vcluster[t] = c
    /\ vpc'[t] = "verify"
    /\ verifiers'[c] = nextId'
    /\ nextId' = nextId + 1

\* C30: the verifier cache holds at most one verifier per cluster and only
\* fully constructed ones.  An entry is an instance that a completed
\* construction installed, at most one construction per cluster has
\* installed since the last invalidation, and an entry appears only in the
\* installing step; a construction that fails leaves the cache unchanged,
\* and a Verify that finds no entry for its cluster under the write lock
\* goes on to construct one.
C30_CacheHoldsOnlyBuiltVerifiers ==
    /\ [](\A c \in Clusters :
            /\ verifiers[c] # 0 => (verifiers[c] \in 1..nextId /\ built[c] = 1)
            /\ verifiers[c] = 0 => built[c] = 0
            /\ \A d \in Clusters : (c # d /\ verifiers[c] # 0) => verifiers[c] # verifiers[d])
    /\ [][\A c \in Clusters :
            (verifiers'[c] # verifiers[c] /\ verifiers'[c] # 0) =>
                \E t \in VMThreads : InstalledBy(t, c)]_vars
    /\ [][\A t \in VMThreads :
            ConstructionFails(t) =>
                (verifiers' = verifiers /\ vresult'[t] = "creating verifier")]_vars
    /\ [][\A t \in VMThreads :
            (vpc[t] = "recheck" /\ vpc'[t] # "recheck" /\ verifiers[vcluster[t]] = 0) =>
                vpc'[t] = "client"]_vars

\* A construction for a remote cluster failed at discovery, the cache has
\* no entry for the cluster, and another Verify for the same cluster is
\* constructing again.
C30_Witness ==
    \E t, u \in VMThreads :
        /\ t # u
        /\ vpc[t] = "done"
        /\ vresult[t] = "creating verifier"
        /\ vpc[u] = "discovery"
        /\ vcluster[u] = vcluster[t]
        /\ vcluster[t] \in Clusters
        /\ verifiers[vcluster[t]] = 0
        /\ invCount = 0

-----------------------------------------------------------------------------
(* Store.Set: the lock and the persistence. *)

\* The Set of t is past the in-memory swap: about to persist, or in the
\* Update/Create call.
Persisting(t) == stcall[t].op = "Set" /\ stpc[t] \in {"set_after", "save_update"}

\* C31: Store.Set holds the write lock only for the in-memory swap and has
\* released it before the Secret Update/Create call starts.  A Set that is
\* past the swap holds neither the write lock nor a read lock, the write
\* lock is held only by a call that is in the assignment, and the Secret
\* changes only in steps taken with the caller holding no lock; so a Get
\* is never kept waiting by a Set that is in its persistence I/O.
C31_LockReleasedBeforePersistence ==
    /\ [](\A t \in STThreads :
            /\ Persisting(t) => (stWriter # t /\ t \notin stReaders)
            /\ stWriter = t => stpc[t] \in {"w_begin", "w_end"})
    /\ [][secret' # secret =>
            \E t \in STThreads :
                /\ stpc[t] = "save_update"
                /\ stWriter # t
                /\ t \notin stReaders]_vars

\* While one goroutine's Set is in the Update/Create call, another
\* goroutine's Get holds the read lock.
C31_Witness ==
    \E t, u \in STThreads :
        /\ t # u
        /\ stcall[t].op = "Set"
        /\ stpc[t] = "save_update"
        /\ stcall[u].op = "Get"
        /\ stpc[u] = "get_read"
        /\ u \in stReaders

-----------------------------------------------------------------------------
(* Credential changes and verifier invalidation. *)

\* C32: whenever a renewal tick of a Renewer that was given a verifier
\* leaves the Store's credentials for the cluster different from what they
\* were when the tick began, InvalidateVerifier for the cluster has been
\* called after the last change (Store.Set or Store.LoadFromFiles) of the
\* tick, and no verifier stays cached.
C32_CoherentInvalidation ==
    (TickEnded /\ ~rnVerifierNil /\ credentials[RenewCluster] # rnStart[RenewCluster]) =>
        /\ \E i \in DOMAIN rnLog :
              /\ rnLog[i] = "InvalidateVerifier"
              /\ \A j \in DOMAIN rnLog : j > i => rnLog[j] \notin {"Set", "LoadFromFiles"}
        /\ verifiers[RenewCluster] = 0

\* A tick whose first TokenRequest failed loaded the bootstrap files over
\* the Store's entry, the retry failed too, and the verifier built before
\* the tick is still cached.
C32_Witness ==
    /\ TickEnded
    /\ ~rnVerifierNil
    /\ rnStart[RenewCluster] = StaleCreds
    /\ credentials[RenewCluster] = Creds("boot-token", "boot-ca")
    /\ rnLog = <<"Attempt", "TokenRequest", "LoadFromFiles", "Attempt", "TokenRequest">>
    /\ verifiers[RenewCluster] # 0

-----------------------------------------------------------------------------
(* Isolation of the renewal loops, checked under SpecLoops. *)

LoopOrigins == {"old", "boot", "new"}

\* C33: renewal tasks are isolated per cluster.  Under any interleaving of
\* the renewal loops, the Store's entry of a cluster is changed, and its
\* cached verifier invalidated, only by a step of the loop started for that
\* cluster; the variables of a loop change only in its own steps; and the
\* entry of a cluster only ever holds credentials of that cluster.
C33_LoopsIsolated ==
    /\ [](\A d \in LoopClusters :
            isoStore[d].present =>
                /\ isoStore[d].ca = LoopCreds(d, "new").ca
                /\ isoStore[d].token \in {LoopCreds(d, o).token : o \in LoopOrigins})
    /\ [][\A d \in LoopClusters :
            /\ isoStore'[d] # isoStore[d] => isoActor' = d
            /\ (isoCache[d] /\ ~isoCache'[d]) => isoActor' = d
            /\ (isoLocal'[d] # isoLocal[d] \/ isoNew'[d] # isoNew[d]
                  \/ isoAttempt'[d] # isoAttempt[d] \/ isoTicks'[d] # isoTicks[d])
                 => isoActor' = d]_vars

\* The two loops are in the middle of a tick at the same time: the one of c
\* has stored a new token and is about to invalidate, the one of b is about
\* to store, and b's verifier is still cached.
C33_Witness ==
    /\ isoPc["c"] = "invalidate"
    /\ isoStore["c"] = LoopCreds("c", "new")
    /\ isoPc["b"] = "store"
    /\ isoStore["b"] = LoopCreds("b", "old")
    /\ isoCache["b"]
    /\ isoCache["c"]

-----------------------------------------------------------------------------
(* Renewal goes on after a failure. *)

\* The last renew returned an error.
RenewFailed == rnRet.returned /\ rnRet.wrap # ""

-----------------------------------------------------------------------------
(* The credentials a TokenReview is forwarded with. *)

\* C35: whenever a TokenReview is forwarded for a detected remote cluster,
\* the request targets the cluster's api_server and carries as bearer token
\* and CA data the Store's entry for that cluster; a forward to a remote
\* cluster is never made with another cluster's credentials or without
\* credentials from the Store.
C35_ForwardUsesStoreCredentials ==
    (Logged("Forward") /\ IsRemote(detected)) =>
        /\ fwdConfig.host = APIServer(detected)
        /\ ~fwdConfig.inCluster
        /\ ~hStoreNil
        /\ credentials[detected].present
        /\ fwdConfig.bearer = credentials[detected].token
        /\ fwdConfig.ca = credentials[detected].ca

\* A TokenReview was forwarded to the remote cluster's api_server with an
\* empty bearer token and no CA data: the handler has a Store, and the
\* Store has no entry for the cluster.
C35_Witness ==
    /\ Logged("Forward")
    /\ IsRemote(detected)
    /\ ~hStoreNil
    /\ ~credentials[detected].present
    /\ fwdConfig.host = APIServer(detected)
    /\ fwdConfig.bearer = ""
    /\ fwdConfig.ca = ""

-----------------------------------------------------------------------------
(* The JWKS URL of a verifier. *)

\* The URL with only its host replaced by apiServer: path and query stay.
HostReplaced(url, apiServer) == TrimSuffix(apiServer, "/") \o Tail(url)

\* C36: For a remote cluster the verifier's JWKS URL is the discovered
\* jwks_uri with only its host replaced by api_server when it contains
\* /openid/v1/jwks and the discovered jwks_uri otherwise; for a local
\* cluster it is the discovered jwks_uri.
C36_OnlyHostReplaced ==
    jwpc = "keyset" =>
        jwURL = IF jwAPIServer # <<>> /\ StringsContains(jwDiscovered, JWKSPathPrefix)
                  THEN HostReplaced(jwDiscovered, jwAPIServer)
                  ELSE jwDiscovered

\* A remote cluster whose jwks_uri has /openid/v1/jwks below another path
\* segment: the key set is created for a URL without that segment.
C36_Witness ==
    /\ jwpc = "keyset"
    /\ jwAPIServer = Str(APIServer("b"))
    /\ jwDiscovered = <<"https://issuer.example.com", "/tenant">> \o JWKSPathPrefix
    /\ jwURL = Str(APIServer("b")) \o JWKSPathPrefix
    /\ jwURL # HostReplaced(jwDiscovered, jwAPIServer)

-----------------------------------------------------------------------------
(* Determinism of request handling. *)

\* The Verify outcomes seen while the request was served twice, as
\* <<cluster, token, outcome>>.
VerifyObservations ==
    {x \in {<<c, rqAuth.token, rpCallerTried[c]>> : c \in Clusters}
             \cup {<<c, rqAuth.token, callerTried[c]>> : c \in Clusters}
             \cup {<<c, rqBody.token, rpDetTried[c]>> : c \in Clusters}
             \cup {<<c, rqBody.token, detTried[c]>> : c \in Clusters} :
        x[3] # "none"}

\* Verify gave one outcome per (cluster, token).
FixedVerifierOutcomes ==
    \A x, y \in VerifyObservations : (x[1] = y[1] /\ x[2] = y[2]) => x[3] = y[3]

\* A cluster asked twice gave the same answer twice.
FixedRemoteResponses ==
    (detected # NoCluster /\ detected = rpDetected) =>
        (hresult = rpResult /\ ForwardErrorOf(resp) = ForwardErrorOf(rpResp))

BothServed == rpAsked /\ hpc = "done"

SameHandling ==
    /\ callerCluster = rpCallerCluster
    /\ detected = rpDetected
    /\ resp = rpResp

\* No token of the request verifies against more than one configured cluster.
SingleIssuer ==
    /\ rqAuth.scheme = "Bearer" => Cardinality(TokenValidFor(rqAuth.token)) <= 1
    /\ rqBody.decodable => Cardinality(TokenValidFor(rqBody.token)) <= 1

\* C37: With fixed verifier outcomes per (cluster, token) and fixed remote
\* responses, two identical requests whose tokens verify against at most
\* one configured cluster get the same caller-authorization decision, the
\* same detected cluster and the same response.
C37_DeterministicForSingleIssuer ==
    (BothServed /\ FixedVerifierOutcomes /\ FixedRemoteResponses /\ SingleIssuer)
        => SameHandling

\* C37 as stated: the same, also when a token verifies against more than
\* one configured cluster.
C37_AsStated ==
    (BothServed /\ FixedVerifierOutcomes /\ FixedRemoteResponses) => SameHandling

\* The token of cluster b reviewed twice, the clusters visited in a
\* different order each time, with the same result.
C37_Witness ==
    /\ BothServed /\ FixedVerifierOutcomes /\ FixedRemoteResponses /\ SingleIssuer
    /\ rqBody.decodable /\ rqBody.token = "tB"
    /\ rpDetTried["a"] # "none" /\ detTried["a"] = "none"
    /\ rpDetected = "b" /\ detected = "b"
    /\ resp.authenticated /\ resp = rpResp

-----------------------------------------------------------------------------
(* Concurrent Set calls for different clusters and the Secret. *)

\* Every Set call made so far has returned, and returned nil.
AllSetsSucceeded ==
    /\ \A c \in LoopClusters : csPc[c] = "idle"
    /\ \E c \in LoopClusters : csCalls[c] > 0
    /\ ~csFailed

\* C38: When Set calls for different clusters run concurrently and all
\* return success, the Secret is never overwritten with a copy of the map
\* older than one written before, and once all calls have returned the
\* Secret holds the credentials of the in-memory map.
C38_SecretEqualsCache ==
    /\ csSecretAt = csNewest
    /\ AllSetsSucceeded => (csSecret.exists /\ csSecret.data = PairSnapshot(csCache))

\* Both renewers have set their cluster's credentials once, both calls have
\* returned nil, and the Secret lacks the credentials one of them installed.
C38_Witness ==
    /\ AllSetsSucceeded
    /\ \A c \in LoopClusters : csCalls[c] = 1
    /\ csCache = [c \in LoopClusters |-> IssuedCreds(c, 1)]
    /\ csSecret.exists
    /\ csSecret.data[TokenKey("c")] = IssuedCreds("c", 0).token
    /\ csSecret.data[TokenKey("b")] = IssuedCreds("b", 1).token

-----------------------------------------------------------------------------
(* The identity headers that reach the upstream. *)

\* The identity headers as the TokenReview result alone determines them.
IdentityOfReview(result) ==
    IdentitySet(NoHeaders, result, HeaderForwardedUser, HeaderForwardedGroups,
                HeaderForwardedExtraCluster)

\* C39: X-Forwarded-User, X-Forwarded-Groups and
\* X-Forwarded-Extra-Cluster-Name reach the upstream with the values derived
\* from the TokenReview result of the request, and a value the client
\* supplied in one of them never does, also when the result has no groups
\* or no cluster-name extra.
C39_IdentityHeadersFromReviewOnly ==
    (pxKind = "proxy" /\ pxUpstream.contacted) =>
        \A n \in IdentityHeaders :
            HeaderGet(pxUpstream.header, n) = HeaderGet(IdentityOfReview(pxResult), n)

\* The review result has a user but no groups, the client sent
\* X-Forwarded-Groups itself, and the upstream receives the client's value.
C39_Witness ==
    /\ pxKind = "proxy"
    /\ pxUpstream.contacted
    /\ pxResult.authenticated
    /\ pxResult.username = <<"alice">>
    /\ Len(pxResult.groups) = 0
    /\ HeaderGet(pxIn, HeaderForwardedGroups) = ClientValue
    /\ HeaderGet(pxUpstream.header, HeaderForwardedUser) = <<"alice">>
    /\ HeaderGet(pxUpstream.header, HeaderForwardedGroups) = ClientValue

-----------------------------------------------------------------------------
(* /validate and the documented error codes. *)

\* docs/DESIGN.md, Error Codes, for the failure kinds of Verify.
DocumentedError(kind) ==
    CASE kind = "unknown cluster" -> [code |-> 400, error |-> "cluster_not_found"]
      [] kind = "token expired" -> [code |-> 401, error |-> "token_expired"]
      [] kind = "signature mismatch" -> [code |-> 401, error |-> "invalid_signature"]
      [] kind = "malformed JWT" -> [code |-> 401, error |-> "invalid_token"]
      [] kind = "discovery failed" -> [code |-> 500, error |-> "oidc_discovery_failed"]
      [] kind = "JWKS fetch failed" -> [code |-> 500, error |-> "jwks_fetch_failed"]

DocumentedKinds ==
    {"unknown cluster", "token expired", "signature mismatch", "malformed JWT",
     "discovery failed", "JWKS fetch failed"}

\* C40: /validate reports every failure kind of Verify with the status and
\* error code of the documented table: unknown cluster 400
\* cluster_not_found, expired token 401 token_expired, signature mismatch
\* 401 invalid_signature, malformed JWT 401 invalid_token, discovery failure
\* 500 oidc_discovery_failed, JWKS fetch failure 500 jwks_fetch_failed.
C40_DocumentedErrorCodes ==
    (vdpc = "done" /\ vdKind \in DocumentedKinds) =>
        [code |-> vdCode, error |-> vdError] = DocumentedError(vdKind)

\* A malformed JWT for a configured cluster is answered 401
\* invalid_signature.
C40_Witness ==
    /\ vdpc = "done"
    /\ vdReq.cluster \in Clusters
    /\ vdKind = "malformed JWT"
    /\ vdCode = StatusUnauthorized
    /\ vdError = "invalid_signature"
=============================================================================
